---- MODULE Spec2Model ----
(***************************************************************************)
(* Model of portals/adapters/gdocs/converter.py: the token walker          *)
(* (GoogleDocsConverter.markdown_to_gdocs and its block handlers) and the  *)
(* request generator (generate_batch_requests, _generate_table_requests),  *)
(* with the callers of scripts/docs_operations.py that send the requests.  *)
(*                                                                         *)
(* Conventions.  A Python str is a sequence of one-character strings.      *)
(* Python list indices are 0-based; the token index i of the code is kept  *)
(* 0-based and a token is read as tokens[i + 1].  Google Docs positions    *)
(* are 1-based, so position p of the destination is plain_text[p] here     *)
(* (Python's plain_text[p - 1]).  None is the empty sequence and a present *)
(* optional value x is <<x>>.                                              *)
(***************************************************************************)
EXTENDS Integers, Sequences, FiniteSets, TLC

VARIABLES current_index, calls, gen, transport, inline

vars == <<current_index, calls, gen, transport, inline>>

TAB == "\t"
NL == "\n"
SP == " "

None == <<>>

Some(x) == <<x>>

Min(a, b) == IF a <= b THEN a ELSE b

Max(a, b) == IF a >= b THEN a ELSE b

(* ------------------------------------------------------------------ *)
(* Python string helpers                                                *)
(* ------------------------------------------------------------------ *)

\* str.isspace() for the characters of the model's alphabet (regex \s too)
IsSpace(c) == c \in {SP, TAB, NL}

\* Python slice bound: a negative bound counts from the end, then clamps
PyBound(n, len) == IF n < 0 THEN Max(n + len, 0) ELSE Min(n, len)

\* the characters of s at the 0-based positions lo .. hi - 1
Between(s, lo, hi) == IF lo >= hi THEN <<>> ELSE SubSeq(s, lo + 1, hi)

\* s[a:b] with Python's clamping of out-of-range bounds
PySlice(s, a, b) == Between(s, PyBound(a, Len(s)), PyBound(b, Len(s)))

\* s.count('\t')
CountTabs(s) == Cardinality({k \in 1..Len(s) : s[k] = TAB})

\* the first 1-based position from k on that holds no whitespace
RECURSIVE SkipSpaces(_, _)
SkipSpaces(s, k) ==
    IF k <= Len(s) /\ IsSpace(s[k]) THEN SkipSpaces(s, k + 1) ELSE k

\* the last 1-based position up to k that holds no whitespace
RECURSIVE RSkipSpaces(_, _)
RSkipSpaces(s, k) ==
    IF k >= 1 /\ IsSpace(s[k]) THEN RSkipSpaces(s, k - 1) ELSE k

\* the characters of s at the 1-based positions lo .. hi
FromTo(s, lo, hi) == IF lo > hi THEN <<>> ELSE SubSeq(s, lo, hi)

\* s.strip()
Strip(s) == FromTo(s, SkipSpaces(s, 1), RSkipSpaces(s, Len(s)))

\* the optional marker character of the checkbox pattern, [x ]?  (no re.I flag:
\* only the lower-case x; a space is already consumed by the preceding \s*)
IsCheckMark(c) == c = "x"

\* after "]" at position d: the trailing \s* is dropped with the marker
CheckboxTail(s, d) ==
    IF d <= Len(s) /\ s[d] = "]"
    THEN FromTo(s, SkipSpaces(s, d + 1), Len(s))
    ELSE s

\* after "[" and \s*, at position b: the optional x, then \s*, then "]"
CheckboxMark(s, b) ==
    CheckboxTail(s, SkipSpaces(s, IF b <= Len(s) /\ IsCheckMark(s[b])
                                  THEN b + 1 ELSE b))

\* after the leading \s*, at position a: "[" then \s*
CheckboxOpen(s, a) ==
    IF a <= Len(s) /\ s[a] = "[" THEN CheckboxMark(s, SkipSpaces(s, a + 1)) ELSE s

\* re.sub(r'^\s*\[\s*[x ]?\s*\]\s*', '', s): the regular language is
\* \s* "[" \s* x? \s* "]" \s*, matched greedily at the start of s only
StripCheckbox(s) == CheckboxOpen(s, SkipSpaces(s, 1))

(* ------------------------------------------------------------------ *)
(* Data types                                                           *)
(* ------------------------------------------------------------------ *)

FormatRange(start, end, kind, level, url, text) ==
    [start_index |-> start, end_index |-> end, format_type |-> kind,
     level |-> level, url |-> url, text |-> text]

TableCell(content, is_header) == [content |-> content, is_header |-> is_header]

RECURSIVE MaxRowLen(_)
MaxRowLen(rows) ==
    IF rows = <<>> THEN 0 ELSE Max(Len(Head(rows)), MaxRowLen(Tail(rows)))

\* TableData with __post_init__: num_rows, num_cols stay 0 for empty rows
TableData(insert_index, rows) ==
    [insert_index |-> insert_index, rows |-> rows,
     num_rows |-> IF rows # <<>> THEN Len(rows) ELSE 0,
     num_cols |-> IF rows # <<>> THEN MaxRowLen(rows) ELSE 0]

\* ConversionResult(plain_text="")
EmptyResult ==
    [plain_text |-> <<>>, format_ranges |-> <<>>, list_ranges |-> <<>>,
     tables |-> <<>>]

\* the walker's accumulator: the cursor self.current_index and the result
WalkState(cur, res) == [cur |-> cur, res |-> res]

\* result.plain_text += s
AppendText(st, s) == [st EXCEPT !.res.plain_text = @ \o s]

\* self.current_index += n
Advance(st, n) == [st EXCEPT !.cur = @ + n]

\* result.format_ranges.append(fr)
AddRange(st, fr) == [st EXCEPT !.res.format_ranges = Append(@, fr)]

(* ------------------------------------------------------------------ *)
(* Inline Run Extractor                                                 *)
(* Every while loop of the code is a recursive operator over the loop's *)
(* variables held in one record s, with the loop body as a step.        *)
(* ------------------------------------------------------------------ *)

\* seq[i] of the code (0-based i)
At(seq, i) == seq[i + 1]

\* the while loop of _get_text_and_skip_count: scans to the matching close
\* token or to the end of the siblings, collecting the text children
RECURSIVE ScanToClose(_, _, _, _)
ScanToClose(siblings, i, close_type, text) ==
    IF i < Len(siblings) /\ siblings[i + 1].type # close_type
    THEN ScanToClose(siblings, i + 1, close_type,
                     IF siblings[i + 1].type = "text"
                     THEN text \o siblings[i + 1].content ELSE text)
    ELSE [i |-> i, text |-> text]

\* skip_count = i - start_index + 1 for the i the scan stopped at
SkipCount(r, start_index) == [text |-> r.text, skip_count |-> r.i - start_index + 1]

GetTextAndSkipCount(siblings, start_index, close_type) ==
    SkipCount(ScanToClose(siblings, start_index + 1, close_type, <<>>),
              start_index)

\* child.attrs.get("href", "") if child.attrs else ""
LinkUrl(child) == IF child.attrs = <<>> THEN <<>> ELSE child.attrs[1]

SpanKind(type) ==
    CASE type = "strong_open" -> "bold"
      [] type = "em_open" -> "italic"
      [] type = "link_open" -> "link"

SpanClose(type) ==
    CASE type = "strong_open" -> "strong_close"
      [] type = "em_open" -> "em_close"
      [] type = "link_open" -> "link_close"

\* a span whose range were taken from the text so far alone, without the
\* cursor (an offset into the inline text instead of a document position)
SpanStepTextOffset(s, child, r) ==
    [i |-> s.i + r.skip_count,
     st |-> AddRange(s.st,
                FormatRange(Len(s.text), Len(s.text) + Len(r.text),
                            SpanKind(child.type), 0,
                            IF child.type = "link_open"
                            THEN Some(LinkUrl(child)) ELSE None,
                            Some(r.text))),
     text |-> s.text \o r.text]

\* a span step that moved on to the child after the open token
SpanStepPastOpenOnly(s, child, r) ==
    [i |-> s.i + 1,
     st |-> AddRange(s.st,
                FormatRange(s.st.cur + Len(s.text),
                            s.st.cur + Len(s.text) + Len(r.text),
                            SpanKind(child.type), 0,
                            IF child.type = "link_open"
                            THEN Some(LinkUrl(child)) ELSE None,
                            Some(r.text))),
     text |-> s.text \o r.text]

\* strong/em/link: one FormatRange from the cursor plus the text so far, over
\* the text r found up to the close token; the span's tokens are skipped
SpanStep(s, child, r) ==
    [i |-> s.i + r.skip_count,
     st |-> AddRange(s.st,
                FormatRange(s.st.cur + Len(s.text),
                            s.st.cur + Len(s.text) + Len(r.text),
                            SpanKind(child.type), 0,
                            IF child.type = "link_open"
                            THEN Some(LinkUrl(child)) ELSE None,
                            Some(r.text))),
     text |-> s.text \o r.text]

\* code_inline: one FormatRange over the literal content
CodeStep(s, child) ==
    [i |-> s.i + 1,
     st |-> AddRange(s.st,
                FormatRange(s.st.cur + Len(s.text),
                            s.st.cur + Len(s.text) + Len(child.content),
                            "code_inline", 0, None, Some(child.content))),
     text |-> s.text \o child.content]

\* the body of the while loop of _process_inline for the child at s.i
InlineStep(children, s, child) ==
    CASE child.type = "text" ->
           [s EXCEPT !.i = @ + 1, !.text = @ \o child.content]
      [] child.type \in {"strong_open", "em_open", "link_open"} ->
           SpanStep(s, child,
                    GetTextAndSkipCount(children, s.i, SpanClose(child.type)))
      [] child.type = "code_inline" -> CodeStep(s, child)
      [] child.type \in {"softbreak", "hardbreak"} ->
           [s EXCEPT !.i = @ + 1, !.text = @ \o <<NL>>]
      [] OTHER -> [s EXCEPT !.i = @ + 1]

\* the while loop of _process_inline; s.st.cur is self.current_index, which
\* the extractor reads and never writes
RECURSIVE InlineLoop(_, _)
InlineLoop(children, s) ==
    IF s.i < Len(children)
    THEN InlineLoop(children, InlineStep(children, s, children[s.i + 1]))
    ELSE s

\* returns the text and the state with the FormatRanges appended
ProcessInline(token, st) ==
    IF token.children = <<>> THEN [i |-> 0, st |-> st, text |-> <<>>]
    ELSE InlineLoop(token.children, [i |-> 0, st |-> st, text |-> <<>>])

(* ------------------------------------------------------------------ *)
(* Block Walker                                                         *)
(* ------------------------------------------------------------------ *)

\* text += text_content; self.current_index += len(text_content); i += 1
BlockInlineStep(s, r) ==
    [i |-> s.i + 1, st |-> Advance(r.st, Len(r.text)), text |-> s.text \o r.text]

\* the inline loop shared by _process_heading and _process_paragraph: every
\* inline token up to close_type is extracted and the cursor advanced by the
\* length of its text
RECURSIVE BlockInlineLoop(_, _, _)
BlockInlineLoop(tokens, close_type, s) ==
    IF s.i < Len(tokens) /\ tokens[s.i + 1].type # close_type
    THEN IF tokens[s.i + 1].type = "inline"
         THEN BlockInlineLoop(tokens, close_type,
                  BlockInlineStep(s, ProcessInline(tokens[s.i + 1], s.st)))
         ELSE BlockInlineLoop(tokens, close_type, [s EXCEPT !.i = @ + 1])
    ELSE s

\* int(open_token.tag[1])
HeadingLevel(tag) ==
    CASE tag = "h1" -> 1 [] tag = "h2" -> 2 [] tag = "h3" -> 3
      [] tag = "h4" -> 4 [] tag = "h5" -> 5 [] tag = "h6" -> 6

\* a heading whose end_index were taken after the newline had been counted
HeadingEndAfterNewline(level, start_index, r) ==
    [i |-> r.i + 1,
     st |-> AddRange(AppendText(Advance(r.st, 1), r.text \o <<NL>>),
                FormatRange(start_index, r.st.cur + 1, "heading", level, None,
                            Some(Strip(r.text \o <<NL>>))))]

\* after the inline loop r: end_index is the cursor before the newline; the
\* newline is appended and the heading range recorded
HeadingEnd(level, start_index, r) ==
    [i |-> r.i + 1,
     st |-> AddRange(AppendText(Advance(r.st, 1), r.text \o <<NL>>),
                FormatRange(start_index, r.st.cur, "heading", level, None,
                            Some(Strip(r.text \o <<NL>>))))]

ProcessHeading(tokens, index, st) ==
    HeadingEnd(HeadingLevel(tokens[index + 1].tag), st.cur,
               BlockInlineLoop(tokens, "heading_close",
                               [i |-> index + 1, st |-> st, text |-> <<>>]))

ParagraphEnd(r) ==
    [i |-> r.i + 1, st |-> AppendText(Advance(r.st, 1), r.text \o <<NL>>)]

ProcessParagraph(tokens, index, st) ==
    ParagraphEnd(BlockInlineLoop(tokens, "paragraph_close",
                                 [i |-> index + 1, st |-> st, text |-> <<>>]))

RECURSIVE BlockquoteLoop(_, _)
BlockquoteLoop(tokens, s) ==
    IF s.i < Len(tokens) /\ tokens[s.i + 1].type # "blockquote_close"
    THEN IF tokens[s.i + 1].type = "paragraph_open"
         THEN BlockquoteLoop(tokens, ProcessParagraph(tokens, s.i, s.st))
         ELSE BlockquoteLoop(tokens, [s EXCEPT !.i = @ + 1])
    ELSE s

\* the wrapping range; i stays at blockquote_close itself (return i, not i + 1)
BlockquoteEnd(start_index, r) ==
    [i |-> r.i,
     st |-> AddRange(r.st, FormatRange(start_index, r.st.cur, "blockquote",
                                       0, None, None))]

ProcessBlockquote(tokens, index, st) ==
    BlockquoteEnd(st.cur, BlockquoteLoop(tokens, [i |-> index + 1, st |-> st]))

\* the code_block range ends at the cursor before the trailing newline
CodeBlockEnd(index, start_index, code_text, st1) ==
    [i |-> index + 1,
     st |-> AddRange(st1, FormatRange(start_index, st1.cur - 1, "code_block",
                                      0, None, Some(code_text)))]

ProcessCodeBlock(token, index, st) ==
    CodeBlockEnd(index, st.cur, token.content,
                 Advance(AppendText(st, token.content \o <<NL>>),
                         Len(token.content) + 1))

\* the literal appended by _process_hr
HrText == <<"-", "-", "-", NL>>

\* a rule that advanced the cursor by the three dashes only
HrAdvanceShort == Len(HrText) - 1

\* self.current_index += 4
HrAdvance == 4

ProcessHr(token, index, st) ==
    [i |-> index + 1, st |-> Advance(AppendText(st, HrText), HrAdvance)]

\* "\t" * nesting_level
Tabs(n) == [k \in 1..n |-> TAB]

ListRange(start, end, ordered, level) ==
    [start_index |-> start, end_index |-> end, ordered |-> ordered,
     nesting_level |-> level]

\* an item whose item_start were taken after the tabs had been appended
ItemOpenAfterTabs(st, nesting_level) ==
    [item_start |-> st.cur + nesting_level,
     st |-> Advance(AppendText(st, Tabs(nesting_level)), nesting_level)]

\* list_item_open: item_start is taken from the cursor BEFORE the tabs are
\* appended, then the nesting tabs are appended and the cursor advanced
ItemOpen(st, nesting_level) ==
    [item_start |-> st.cur,
     st |-> Advance(AppendText(st, Tabs(nesting_level)), nesting_level)]

\* result.list_ranges.append({item_start, self.current_index, ...})
AddListRange(st, item_start, ordered, nesting_level) ==
    [st EXCEPT !.res.list_ranges =
         Append(@, ListRange(item_start, st.cur, ordered, nesting_level))]

\* terminate an item: append "\n", advance the cursor, record the list range
CommitItem(st, item_start, ordered, nesting_level) ==
    AddListRange(Advance(AppendText(st, <<NL>>), 1), item_start, ordered,
                 nesting_level)

\* a recursive call that passed its own level on unchanged
NestedLevelSame(nesting_level) == nesting_level

\* the nesting level passed to the recursive call for a nested list
NestedLevel(nesting_level) == nesting_level + 1

\* the cursor advance for the text appended to a list item
ItemAdvance(text_content) == Len(text_content)

\* if text_content.strip(): append it, advance the cursor, has_content = True
ItemAppend(s, st, text_content) ==
    IF Strip(text_content) # <<>>
    THEN [i |-> s.i + 1,
          st |-> Advance(AppendText(st, text_content), ItemAdvance(text_content)),
          has_content |-> TRUE]
    ELSE [i |-> s.i + 1, st |-> st, has_content |-> s.has_content]

\* one inline token of a list item's paragraph: extract (r), strip the
\* checkbox marker, append only non-blank text
ItemInline(s, r) == ItemAppend(s, r.st, StripCheckbox(r.text))

\* the paragraph loop inside a list item (up to paragraph_close)
RECURSIVE ItemParaLoop(_, _)
ItemParaLoop(tokens, s) ==
    IF s.i < Len(tokens) /\ tokens[s.i + 1].type # "paragraph_close"
    THEN IF tokens[s.i + 1].type = "inline"
         THEN ItemParaLoop(tokens,
                           ItemInline(s, ProcessInline(tokens[s.i + 1], s.st)))
         ELSE ItemParaLoop(tokens, [s EXCEPT !.i = @ + 1])
    ELSE s

IsListOpen(type) == type \in {"bullet_list_open", "ordered_list_open"}

IsListClose(type) == type \in {"bullet_list_close", "ordered_list_close"}

\* before a nested list: a parent item that has content is terminated and
\* committed first
ParentCommit(s, item_start, ordered, nesting_level) ==
    IF s.has_content
    THEN CommitItem(s.st, item_start, ordered, nesting_level)
    ELSE s.st

\* after the nested list returned r: i = its return value, has_content False
NestedEnd(r) == [i |-> r.i + 1, st |-> r.st, has_content |-> FALSE]

\* i += 1  # Skip paragraph_close
ItemParaEnd(r) == [r EXCEPT !.i = @ + 1]

\* end of a list item: content still pending is terminated and committed; i
\* stays at list_item_close
ItemEnd(r, item_start, ordered, nesting_level) ==
    [i |-> r.i,
     st |-> IF r.has_content
            THEN CommitItem(r.st, item_start, ordered, nesting_level)
            ELSE r.st]

RECURSIVE ListLoop(_, _, _, _)
RECURSIVE ItemLoop(_, _, _, _, _)

\* the content loop of one list item (up to list_item_close);
\* s = [i, st, has_content]
ItemLoop(tokens, ordered, nesting_level, item_start, s) ==
    IF ~(s.i < Len(tokens) /\ tokens[s.i + 1].type # "list_item_close") THEN s
    ELSE ItemLoop(tokens, ordered, nesting_level, item_start,
           IF tokens[s.i + 1].type = "paragraph_open"
           THEN ItemParaEnd(ItemParaLoop(tokens, [s EXCEPT !.i = @ + 1]))
           ELSE IF IsListOpen(tokens[s.i + 1].type)
           THEN NestedEnd(ListLoop(tokens,
                                   tokens[s.i + 1].type = "ordered_list_open",
                                   NestedLevel(nesting_level),
                                   [i |-> s.i + 1,
                                    st |-> ParentCommit(s, item_start, ordered,
                                                        nesting_level)]))
           ELSE [s EXCEPT !.i = @ + 1])

\* one list item, opened as o at token i
ListItem(tokens, ordered, nesting_level, i, o) ==
    ItemEnd(ItemLoop(tokens, ordered, nesting_level, o.item_start,
                     [i |-> i + 1, st |-> o.st, has_content |-> FALSE]),
            o.item_start, ordered, nesting_level)

\* the outer while loop of _process_list; s = [i, st]
ListLoop(tokens, ordered, nesting_level, s) ==
    IF ~(s.i < Len(tokens) /\ ~IsListClose(tokens[s.i + 1].type)) THEN s
    ELSE ListLoop(tokens, ordered, nesting_level,
           IF tokens[s.i + 1].type = "list_item_open"
           THEN ListItem(tokens, ordered, nesting_level, s.i,
                         ItemOpen(s.st, nesting_level))
           ELSE [s EXCEPT !.i = @ + 1])

\* return i + 1
ListEnd(r) == [i |-> r.i + 1, st |-> r.st]

ProcessList(tokens, index, st, ordered, nesting_level) ==
    ListEnd(ListLoop(tokens, ordered, nesting_level,
                     [i |-> index + 1, st |-> st]))

\* _extract_cell_text: only text and code_inline children contribute
RECURSIVE CellTextLoop(_, _)
CellTextLoop(children, text) ==
    IF children = <<>> THEN text
    ELSE CellTextLoop(Tail(children),
                      IF Head(children).type \in {"text", "code_inline"}
                      THEN text \o Head(children).content ELSE text)

ExtractCellText(token) ==
    IF token.children = <<>> THEN <<>> ELSE CellTextLoop(token.children, <<>>)

\* the loop over one cell's tokens (up to th_close / td_close): the last inline
\* token's text is the cell content
RECURSIVE CellLoop(_, _, _)
CellLoop(tokens, i, cell_content) ==
    IF i < Len(tokens) /\ tokens[i + 1].type \notin {"th_close", "td_close"}
    THEN CellLoop(tokens, i + 1,
                  IF tokens[i + 1].type = "inline"
                  THEN ExtractCellText(tokens[i + 1]) ELSE cell_content)
    ELSE [i |-> i, cell_content |-> cell_content]

\* current_row.append(TableCell(...)); i += 1  # Skip the close token
CellEnd(s, r) ==
    [s EXCEPT !.i = r.i + 1,
              !.current_row = Append(@, TableCell(r.cell_content, s.in_header))]

\* the body of the while loop of _process_table;
\* s = [i, rows, current_row, in_header]
TableStep(tokens, s, type) ==
    CASE type = "thead_open" -> [s EXCEPT !.i = @ + 1, !.in_header = TRUE]
      [] type = "thead_close" -> [s EXCEPT !.i = @ + 1, !.in_header = FALSE]
      [] type = "tr_open" -> [s EXCEPT !.i = @ + 1, !.current_row = <<>>]
      [] type = "tr_close" ->
           [s EXCEPT !.i = @ + 1,
                     !.rows = IF s.current_row # <<>>
                              THEN Append(@, s.current_row) ELSE @]
      [] type \in {"th_open", "td_open"} ->
           CellEnd(s, CellLoop(tokens, s.i + 1, <<>>))
      [] OTHER -> [s EXCEPT !.i = @ + 1]

\* the while loop of _process_table (up to table_close)
RECURSIVE TableLoop(_, _)
TableLoop(tokens, s) ==
    IF s.i < Len(tokens) /\ tokens[s.i + 1].type # "table_close"
    THEN TableLoop(tokens, TableStep(tokens, s, tokens[s.i + 1].type))
    ELSE s

\* a variant that takes the table's position after the placeholder
TableEndAfterPlaceholder(st, r) ==
    [i |-> r.i + 1,
     st |-> IF r.rows # <<>>
            THEN [Advance(AppendText(st, <<NL>>), 1) EXCEPT !.res.tables =
                      Append(@, TableData(st.cur + 1, r.rows))]
            ELSE st]

\* if rows: store the TableData at the cursor taken at table_open and append
\* the one-newline placeholder
TableEnd(st, r) ==
    [i |-> r.i + 1,
     st |-> IF r.rows # <<>>
            THEN Advance(AppendText(
                     [st EXCEPT !.res.tables =
                          Append(@, TableData(st.cur, r.rows))],
                     <<NL>>), 1)
            ELSE st]

ProcessTable(tokens, index, st) ==
    TableEnd(st, TableLoop(tokens, [i |-> index + 1, rows |-> <<>>,
                                    current_row |-> <<>>, in_header |-> FALSE]))

\* the token types _process_tokens dispatches on
BlockKinds ==
    {"heading_open", "paragraph_open", "bullet_list_open", "ordered_list_open",
     "blockquote_open", "code_block", "fence", "hr", "table_open"}

\* one iteration of the while loop of _process_tokens: dispatch on the type of
\* tokens[i]; any other token is skipped
ProcessBlock(tokens, i, st) ==
    CASE tokens[i + 1].type = "heading_open" -> ProcessHeading(tokens, i, st)
      [] tokens[i + 1].type = "paragraph_open" -> ProcessParagraph(tokens, i, st)
      [] IsListOpen(tokens[i + 1].type) ->
           ProcessList(tokens, i, st, tokens[i + 1].type = "ordered_list_open", 0)
      [] tokens[i + 1].type = "blockquote_open" -> ProcessBlockquote(tokens, i, st)
      [] tokens[i + 1].type \in {"code_block", "fence"} ->
           ProcessCodeBlock(tokens[i + 1], i, st)
      [] tokens[i + 1].type = "hr" -> ProcessHr(tokens[i + 1], i, st)
      [] tokens[i + 1].type = "table_open" -> ProcessTable(tokens, i, st)
      [] OTHER -> [i |-> i + 1, st |-> st]

\* _process_tokens run to completion from s = [i, st] (the sequential walk)
RECURSIVE ProcessTokens(_, _)
ProcessTokens(tokens, s) ==
    IF s.i < Len(tokens)
    THEN ProcessTokens(tokens, ProcessBlock(tokens, s.i, s.st))
    ELSE s

(* ------------------------------------------------------------------ *)
(* Request Generator                                                    *)
(* ------------------------------------------------------------------ *)

\* a new current_group
Group(r) ==
    [ordered |-> r.ordered, start_index |-> r.start_index,
     end_index |-> r.end_index]

\* an adjacency test that required an overlap (< instead of <=)
IsAdjacentStrict(curr, current_group) ==
    curr.start_index < current_group.end_index

\* is_adjacent: the range starts at or before the running end of the group
IsAdjacent(curr, current_group) == curr.start_index <= current_group.end_index

\* same_type
SameType(curr, current_group) == curr.ordered = current_group.ordered

\* the body of the grouping loop for the range curr;
\* s = [i, current_group, list_groups]
GroupStep(s, curr) ==
    IF SameType(curr, s.current_group) /\ IsAdjacent(curr, s.current_group)
    THEN [s EXCEPT !.i = @ + 1,
                   !.current_group.end_index = Max(@, curr.end_index)]
    ELSE [i |-> s.i + 1, current_group |-> Group(curr),
          list_groups |-> Append(s.list_groups, s.current_group)]

\* for i in range(1, len(list_ranges)), then the final append
RECURSIVE GroupLoop(_, _)
GroupLoop(list_ranges, s) ==
    IF s.i < Len(list_ranges)
    THEN GroupLoop(list_ranges, GroupStep(s, list_ranges[s.i + 1]))
    ELSE Append(s.list_groups, s.current_group)

\* list_groups of a non-empty list_ranges
GroupLists(list_ranges) ==
    GroupLoop(list_ranges, [i |-> 1, current_group |-> Group(list_ranges[1]),
                            list_groups |-> <<>>])

BulletPreset(ordered) ==
    IF ordered THEN "NUMBERED_DECIMAL_ALPHA_ROMAN" ELSE "BULLET_DISC_CIRCLE_SQUARE"

\* group_text = conversion.plain_text[start_index:end_index]
GroupText(plain_text, group) ==
    PySlice(plain_text, group.start_index, group.end_index)

\* tabs_in_group = group_text.count('\t')
TabsInGroup(plain_text, group) == CountTabs(GroupText(plain_text, group))

\* adjusted_start, adjusted_end (- 1 for the trailing newline)
BulletRequest(group, tab_offset) ==
    [op |-> "createParagraphBullets",
     startIndex |-> group.start_index - tab_offset,
     endIndex |-> group.end_index - 1 - tab_offset,
     bulletPreset |-> BulletPreset(group.ordered)]

\* for group in list_groups, with the running tab_offset
RECURSIVE BulletLoop(_, _, _, _)
BulletLoop(plain_text, list_groups, requests, tab_offset) ==
    IF list_groups = <<>>
    THEN [requests |-> requests, tab_offset |-> tab_offset]
    ELSE BulletLoop(plain_text, Tail(list_groups),
                    Append(requests, BulletRequest(Head(list_groups), tab_offset)),
                    tab_offset + TabsInGroup(plain_text, Head(list_groups)))

\* tabs_before = conversion.plain_text[:start_index].count('\t')
TabsBefore(plain_text, start_index) ==
    CountTabs(PySlice(plain_text, 0, start_index))

\* a mapping that names the Docs heading after the markdown level
HeadingStyleOfSameLevel(level) ==
    CASE level = 1 -> "HEADING_1"
      [] level = 2 -> "HEADING_2"
      [] level = 3 -> "HEADING_3"
      [] level = 4 -> "HEADING_4"
      [] level = 5 -> "HEADING_5"
      [] level = 6 -> "HEADING_6"
      [] OTHER -> "HEADING_n"

\* "TITLE" for level 1, else f"HEADING_{level - 1}"
HeadingStyle(level) ==
    CASE level = 1 -> "TITLE"
      [] level = 2 -> "HEADING_1"
      [] level = 3 -> "HEADING_2"
      [] level = 4 -> "HEADING_3"
      [] level = 5 -> "HEADING_4"
      [] level = 6 -> "HEADING_5"
      [] OTHER -> "HEADING_n"

\* a style request: its range, its "fields" mask, and the payload parts that
\* depend on the FormatRange (fixed colours and sizes are named by the mask)
StyleRequest(op, fmt, tabs_before, fields, namedStyleType, url) ==
    [op |-> op, startIndex |-> fmt.start_index - tabs_before,
     endIndex |-> fmt.end_index - tabs_before, fields |-> fields,
     namedStyleType |-> namedStyleType, url |-> url]

\* the requests appended for one FormatRange (none for an unknown format_type)
FormatRequests(fmt, tabs_before) ==
    CASE fmt.format_type = "heading" ->
           <<StyleRequest("updateParagraphStyle", fmt, tabs_before,
                          "namedStyleType", HeadingStyle(fmt.level), None)>>
      [] fmt.format_type = "bold" ->
           <<StyleRequest("updateTextStyle", fmt, tabs_before, "bold", "", None)>>
      [] fmt.format_type = "italic" ->
           <<StyleRequest("updateTextStyle", fmt, tabs_before, "italic", "", None)>>
      [] fmt.format_type = "code_inline" ->
           <<StyleRequest("updateTextStyle", fmt, tabs_before, "fontSize", "", None)>>
      [] fmt.format_type = "link" ->
           <<StyleRequest("updateTextStyle", fmt, tabs_before, "link", "", fmt.url)>>
      [] fmt.format_type = "code_block" ->
           <<StyleRequest("updateTextStyle", fmt, tabs_before,
                          "weightedFontFamily,fontSize,backgroundColor", "", None),
             StyleRequest("updateParagraphStyle", fmt, tabs_before,
                          "indentStart,indentEnd", "", None)>>
      [] fmt.format_type = "blockquote" ->
           <<StyleRequest("updateParagraphStyle", fmt, tabs_before,
                          "indentStart,borderLeft", "", None),
             StyleRequest("updateTextStyle", fmt, tabs_before,
                          "backgroundColor", "", None)>>
      [] OTHER -> <<>>

\* reversed(...)
RECURSIVE Reversed(_)
Reversed(s) == IF s = <<>> THEN <<>> ELSE Append(Reversed(Tail(s)), Head(s))

\* a style loop that visited the format ranges last to first
FormatOrderReversed(format_ranges) == Reversed(format_ranges)

\* the order in which the loop visits conversion.format_ranges
FormatOrder(format_ranges) == format_ranges

\* for fmt in conversion.format_ranges
RECURSIVE StyleLoop(_, _, _)
StyleLoop(plain_text, format_ranges, requests) ==
    IF format_ranges = <<>> THEN requests
    ELSE StyleLoop(plain_text, Tail(format_ranges),
                   requests \o FormatRequests(Head(format_ranges),
                                  TabsBefore(plain_text,
                                             Head(format_ranges).start_index)))

StyleRequests(conversion, requests) ==
    StyleLoop(conversion.plain_text, FormatOrder(conversion.format_ranges),
              requests)

\* base_index = adjusted_index + 4: the first cell paragraph of a new table
FirstCellOffset == 4

\* each cell of an empty table takes 2 positions (cell start + newline)
CellWidth == 2

\* each row boundary takes 1 more position
RowBoundary == 1

\* cell_positions of one row: each cell takes 2 positions
RowPositions(row, running_index) ==
    [k \in 1..Len(row) |-> running_index + CellWidth * (k - 1)]

\* cell_positions: the running index advances by 2 per cell and 1 per row
RECURSIVE CellPositions(_, _)
CellPositions(rows, running_index) ==
    IF rows = <<>> THEN <<>>
    ELSE <<RowPositions(Head(rows), running_index)>>
         \o CellPositions(Tail(rows),
                          running_index + CellWidth * Len(Head(rows)) + RowBoundary)

InsertText(index, text) == [op |-> "insertText", index |-> index, text |-> text]

\* the inner loop over one row, for col_idx from len(row) - 1 down to 0
RECURSIVE RowCellRequests(_, _, _)
RowCellRequests(row, row_positions, col_idx) ==
    IF col_idx < 0 THEN <<>>
    ELSE (IF row[col_idx + 1].content # <<>>
          THEN <<InsertText(row_positions[col_idx + 1], row[col_idx + 1].content)>>
          ELSE <<>>)
         \o RowCellRequests(row, row_positions, col_idx - 1)

\* the outer loop run from the first row to the last
RECURSIVE CellRequestsForward(_, _, _)
CellRequestsForward(rows, cell_positions, row_idx) ==
    IF row_idx < 0 THEN <<>>
    ELSE CellRequestsForward(rows, cell_positions, row_idx - 1)
         \o RowCellRequests(rows[row_idx + 1], cell_positions[row_idx + 1],
                            Len(rows[row_idx + 1]) - 1)

\* the outer loop, for row_idx from len(rows) - 1 down to 0
RECURSIVE CellRequests(_, _, _)
CellRequests(rows, cell_positions, row_idx) ==
    IF row_idx < 0 THEN <<>>
    ELSE RowCellRequests(rows[row_idx + 1], cell_positions[row_idx + 1],
                         Len(rows[row_idx + 1]) - 1)
         \o CellRequests(rows, cell_positions, row_idx - 1)

TableCellStyle(adjusted_index, rowSpan, columnSpan, fields) ==
    [op |-> "updateTableCellStyle", tableStart |-> adjusted_index + 1,
     rowIndex |-> 0, columnIndex |-> 0, rowSpan |-> rowSpan,
     columnSpan |-> columnSpan, fields |-> fields]

HeaderTextStyle(start, end) ==
    [op |-> "updateTextStyle", startIndex |-> start, endIndex |-> end,
     fields |-> "foregroundColor,bold", namedStyleType |-> "", url |-> None]

\* the header loop with a running offset of the content length alone
RECURSIVE HeaderCellRequestsNoOverhead(_, _)
HeaderCellRequestsNoOverhead(cells, header_cell_start) ==
    IF cells = <<>> THEN <<>>
    ELSE (IF Head(cells).content # <<>>
          THEN <<HeaderTextStyle(header_cell_start,
                                 header_cell_start + Len(Head(cells).content))>>
          ELSE <<>>)
         \o HeaderCellRequestsNoOverhead(Tail(cells),
                header_cell_start + Len(Head(cells).content))

\* the loop over table.rows[0] with the forward-running header_cell_start
RECURSIVE HeaderCellRequests(_, _)
HeaderCellRequests(cells, header_cell_start) ==
    IF cells = <<>> THEN <<>>
    ELSE (IF Head(cells).content # <<>>
          THEN <<HeaderTextStyle(header_cell_start,
                                 header_cell_start + Len(Head(cells).content))>>
          ELSE <<>>)
         \o HeaderCellRequests(Tail(cells),
                header_cell_start + Len(Head(cells).content) + CellWidth)

\* table.rows[0][0] raises IndexError when the first row has no cell
HeaderTestRaises(table) == table.num_rows > 0 /\ table.rows[1] = <<>>

\* adjusted_index = insert_index - tabs_before_table
AdjustedIndex(plain_text, table) ==
    table.insert_index - TabsBefore(plain_text, table.insert_index)

\* the requests of one table at adjusted_index: insertTable, the cell inserts
\* in reverse order, the border style, the header styling
TableRequestsAt(table, adjusted_index) ==
    <<[op |-> "insertTable", rows |-> table.num_rows,
       columns |-> table.num_cols, index |-> adjusted_index]>>
    \o CellRequests(table.rows,
                    CellPositions(table.rows, adjusted_index + FirstCellOffset),
                    Len(table.rows) - 1)
    \o <<TableCellStyle(adjusted_index, table.num_rows, table.num_cols,
                        "borderTop,borderBottom,borderLeft,borderRight")>>
    \o (IF table.num_rows > 0 /\ table.rows[1][1].is_header
        THEN <<TableCellStyle(adjusted_index, 1, table.num_cols,
                              "backgroundColor")>>
             \o HeaderCellRequests(table.rows[1],
                                   adjusted_index + FirstCellOffset)
        ELSE <<>>)

\* the body of the loop of _generate_table_requests for one table
OneTableRequests(plain_text, table) ==
    TableRequestsAt(table, AdjustedIndex(plain_text, table))

\* the tables visited in the order of their declaration
TableOrderDeclared(tables) == tables

\* the order in which _generate_table_requests visits conversion.tables
TableOrder(tables) == Reversed(tables)

\* the loop of _generate_table_requests; an IndexError raised for one table
\* ends the call without a request list
RECURSIVE TableLoopRequests(_, _, _)
TableLoopRequests(plain_text, tables, requests) ==
    IF tables = <<>> THEN [requests |-> requests, error |-> ""]
    ELSE IF HeaderTestRaises(Head(tables))
    THEN [requests |-> <<>>, error |-> "IndexError"]
    ELSE TableLoopRequests(plain_text, Tail(tables),
                           requests \o OneTableRequests(plain_text, Head(tables)))

GenerateTableRequests(conversion) ==
    TableLoopRequests(conversion.plain_text, TableOrder(conversion.tables), <<>>)

(* ------------------------------------------------------------------ *)
(* Inputs: token streams as the tokenizer (markdown-it, table rule     *)
(* enabled) produces them for small markdown blocks                     *)
(* ------------------------------------------------------------------ *)

Tok(type) ==
    [type |-> type, tag |-> "", content |-> <<>>, children |-> <<>>,
     attrs |-> <<>>]

Txt(s) == [Tok("text") EXCEPT !.content = s]

Code(s) == [Tok("code_inline") EXCEPT !.content = s]

Inline(children) == [Tok("inline") EXCEPT !.children = children]

Strong(s) == <<Tok("strong_open"), Txt(s), Tok("strong_close")>>

Em(s) == <<Tok("em_open"), Txt(s), Tok("em_close")>>

Link(s, href) ==
    <<[Tok("link_open") EXCEPT !.attrs = <<href>>], Txt(s), Tok("link_close")>>

Para(children) ==
    <<Tok("paragraph_open"), Inline(children), Tok("paragraph_close")>>

Heading(tag, children) ==
    <<[Tok("heading_open") EXCEPT !.tag = tag], Inline(children),
      [Tok("heading_close") EXCEPT !.tag = tag]>>

Item(body) == <<Tok("list_item_open")>> \o body \o <<Tok("list_item_close")>>

Bullets(items) ==
    <<Tok("bullet_list_open")>> \o items \o <<Tok("bullet_list_close")>>

Numbered(items) ==
    <<Tok("ordered_list_open")>> \o items \o <<Tok("ordered_list_close")>>

Quote(body) == <<Tok("blockquote_open")>> \o body \o <<Tok("blockquote_close")>>

Fence(content) == <<[Tok("fence") EXCEPT !.content = content]>>

Cell(kind, children) ==
    <<Tok(kind \o "_open"), Inline(children), Tok(kind \o "_close")>>

Row(cells) == <<Tok("tr_open")>> \o cells \o <<Tok("tr_close")>>

Table(head, body) ==
    <<Tok("table_open"), Tok("thead_open")>> \o head
    \o <<Tok("thead_close"), Tok("tbody_open")>> \o body
    \o <<Tok("tbody_close"), Tok("table_close")>>

\* the block library; the markdown of each block is given beside it
Library ==
    << Heading("h1", <<Txt(<<"T", "i", "t", "l", "e">>)>>),     \* # Title
       Heading("h2", <<Txt(<<"a">>), Code(<<"c", SP>>)>>),      \* ## a`c `
       Para(Strong(<<"b", "o", "l", "d">>)                      \* **bold** text
            \o <<Txt(<<SP, "t", "e", "x", "t">>)>>),
       Para(Em(<<"i">>) \o <<Code(<<"c">>)>>                    \* *i*`c`[l](u)
            \o Link(<<"l">>, <<"u">>)                           \*   z
            \o <<Tok("softbreak"), Txt(<<"z">>)>>),
       Bullets(Item(Para(<<Txt(<<"a">>)>>))                     \* - a
               \o Item(Para(<<Txt(<<"b">>)>>))),                \* - b
       Bullets(Item(Para(<<Txt(<<"a">>)>>)                      \* - a
               \o Bullets(Item(Para(<<Txt(<<"b">>)>>))))),      \*   - b
       Numbered(Item(Para(Em(<<"i">>) \o Strong(<<"b">>)))),    \* 1. *i***b**
       Bullets(Item(Para(<<Txt(<<"[", SP, "]", SP>>)>>          \* - [ ] **b**
                         \o Strong(<<"b">>)))),
       Bullets(Item(Para(<<Txt(<<"a">>)>>)                      \* - a
               \o Bullets(Item(Para(<<Txt(<<"[", "x", "]">>)>>))))),  \*   - [x]
       Bullets(Item(Bullets(Item(Para(<<Txt(<<"b">>)>>))))),    \* - - b
       Bullets(Item(Para(<<Txt(<<"a">>)>>)                      \* - a
               \o Bullets(Item(Para(<<Txt(<<"b">>)>>)))         \*   - b
               \o Para(<<Txt(<<"c">>)>>))),                     \*   (blank) c
       Bullets(Item(Para(<<Txt(<<"a">>)>>)                      \* - a
               \o Numbered(Item(Para(<<Txt(<<"b">>)>>))))),     \*   1. b
       Quote(Para(<<Txt(<<"q">>)>>)),                           \* > q
       Fence(<<TAB, "x", NL>>),                                 \* ``` <tab>x ```
       <<Tok("hr")>>,                                           \* ***
       Table(Row(Cell("th", <<Txt(<<"h">>)>>)                   \* |h|k|
                 \o Cell("th", <<Txt(<<"k">>)>>)),              \* |-|-|
             Row(Cell("td", <<Txt(<<"c">>)>>)                   \* |c||
                 \o Cell("td", <<>>))),
       <<Tok("html_block")>>,                                   \* <hr/>
       Table(Row(Cell("th", <<>>)                               \* | |k|
                 \o Cell("th", <<Txt(<<"k">>)>>)),              \* |-|-|
             Row(Cell("td", <<Txt(<<"c", "c">>)>>)              \* |cc|d|
                 \o Cell("td", <<Txt(<<"d">>)>>))),
       Bullets(Item(Para(<<Txt(<<"a">>)>>)                      \* - a
               \o Numbered(Item(Para(<<Txt(<<"b">>)>>)))        \*   1. b
               \o Para(<<Txt(<<"c">>)>>))),                     \*   (blank) c
       Quote(<<>>),                                             \* >
       Bullets(Item(Para(<<Txt(<<"[", "X", "]", SP, "b">>)>>))),    \* - [X] b
       <<Tok("table_open"), Tok("table_close")>> >>   \* a table without rows

\* the largest number of top-level blocks of an input document
MaxBlocks == 2

RECURSIVE Flatten(_)
Flatten(blocks) ==
    IF blocks = <<>> THEN <<>> ELSE Library[Head(blocks)] \o Flatten(Tail(blocks))

\* the documents: every sequence of at most MaxBlocks library blocks
Documents ==
    {Flatten(d) : d \in UNION {[1..n -> 1..Len(Library)] : n \in 0..MaxBlocks}}

(* ------------------------------------------------------------------ *)
(* State machine                                                        *)
(*   current_index[o]  the attribute self.current_index of converter o  *)
(*   calls[c]          one markdown_to_gdocs call: its converter self,  *)
(*                     its tokens, the loop index i of _process_tokens, *)
(*                     its ConversionResult and its position pc         *)
(*   gen               one generate_batch_requests call: its argument,  *)
(*                     its requests list, list_groups, tab_offset       *)
(*                     (None until assigned) and its position pc        *)
(*   transport         the script that converts a file and sends the    *)
(*                     requests: the batches sent and its position      *)
(*   inline            one _process_inline call on a child sequence:    *)
(*                     its loop variables and its position              *)
(* ------------------------------------------------------------------ *)

Converters == {"conv1", "conv2"}

CallIds == {1, 2}

IdleCall ==
    [self |-> "conv1", tokens |-> <<>>, i |-> 0, result |-> EmptyResult,
     pc |-> "idle"]

NewCall(self, tokens) == [IdleCall EXCEPT !.self = self, !.tokens = tokens,
                                          !.pc = "start"]

\* previous: the list an earlier call on the same argument returned
IdleGen ==
    [pc |-> "idle", conversion |-> EmptyResult, requests |-> <<>>,
     list_groups |-> <<>>, tab_offset |-> None, error |-> "",
     previous |-> None]

\* one _process_inline call made on its own: the children of its token, the
\* loop's variables s = [i, st, text] and its position pc
IdleInline ==
    [pc |-> "idle", children |-> <<>>,
     s |-> [i |-> 0, st |-> WalkState(1, EmptyResult), text |-> <<>>]]

\* a caller of scripts/docs_operations.py: which of create_from_markdown and
\* update_from_markdown runs, whether the converter module is found, the
\* tokens of the markdown file, the end index of the document an update
\* finds, the batches sent so far and the caller's position pc
IdleTransport ==
    [caller |-> "none", found |-> TRUE, markdown |-> <<>>, end_index |-> 1,
     sent |-> <<>>, error |-> "", pc |-> "idle"]

\* after __init__ (current_index = 1); one call is about to run
Init ==
    /\ current_index = [o \in Converters |-> 1]
    /\ \E tokens \in Documents :
          calls = [c \in CallIds |->
                      IF c = 1 THEN NewCall("conv1", tokens) ELSE IdleCall]
    /\ gen = IdleGen
    /\ transport = IdleTransport
    /\ inline = IdleInline

\* markdown_to_gdocs starting from the cursor the converter was left with
BeginNoReset(c) ==
    /\ calls[c].pc = "start"
    /\ calls' = [calls EXCEPT ![c].result = EmptyResult, ![c].i = 0,
                              ![c].pc = "walk"]
    /\ UNCHANGED <<current_index, gen, transport, inline>>

\* markdown_to_gdocs up to the call of _process_tokens: a fresh result and
\* the cursor reset to 1
Begin(c) ==
    /\ calls[c].pc = "start"
    /\ current_index' = [current_index EXCEPT ![calls[c].self] = 1]
    /\ calls' = [calls EXCEPT ![c].result = EmptyResult, ![c].i = 0,
                              ![c].pc = "walk"]
    /\ UNCHANGED <<gen, transport, inline>>

\* the walker state a handler of call c starts from: the converter's cursor
\* and the call's result
Cursor(c) == WalkState(current_index[calls[c].self], calls[c].result)

\* the loop of _process_tokens of call c is at a token of one of the types
AtBlock(c, types) ==
    /\ calls[c].pc = "walk"
    /\ calls[c].i < Len(calls[c].tokens)
    /\ calls[c].tokens[calls[c].i + 1].type \in types

\* the handler's outcome r is stored: the converter's cursor, the call's
\* result and the loop index (i = self._process_...(...))
Store(c, r) ==
    /\ current_index' = [current_index EXCEPT ![calls[c].self] = r.st.cur]
    /\ calls' = [calls EXCEPT ![c].result = r.st.res, ![c].i = r.i]
    /\ UNCHANGED <<gen, transport, inline>>

HandleHeading(c) ==
    /\ AtBlock(c, {"heading_open"})
    /\ Store(c, ProcessHeading(calls[c].tokens, calls[c].i, Cursor(c)))

HandleParagraph(c) ==
    /\ AtBlock(c, {"paragraph_open"})
    /\ Store(c, ProcessParagraph(calls[c].tokens, calls[c].i, Cursor(c)))

HandleList(c) ==
    /\ AtBlock(c, {"bullet_list_open", "ordered_list_open"})
    /\ Store(c, ProcessList(calls[c].tokens, calls[c].i, Cursor(c),
                    calls[c].tokens[calls[c].i + 1].type = "ordered_list_open",
                    0))

HandleBlockquote(c) ==
    /\ AtBlock(c, {"blockquote_open"})
    /\ Store(c, ProcessBlockquote(calls[c].tokens, calls[c].i, Cursor(c)))

HandleCodeBlock(c) ==
    /\ AtBlock(c, {"code_block", "fence"})
    /\ Store(c, ProcessCodeBlock(calls[c].tokens[calls[c].i + 1], calls[c].i,
                                 Cursor(c)))

HandleHr(c) ==
    /\ AtBlock(c, {"hr"})
    /\ Store(c, ProcessHr(calls[c].tokens[calls[c].i + 1], calls[c].i,
                          Cursor(c)))

HandleTable(c) ==
    /\ AtBlock(c, {"table_open"})
    /\ Store(c, ProcessTable(calls[c].tokens, calls[c].i, Cursor(c)))

\* else: i += 1
SkipToken(c) ==
    /\ calls[c].pc = "walk"
    /\ calls[c].i < Len(calls[c].tokens)
    /\ calls[c].tokens[calls[c].i + 1].type \notin BlockKinds
    /\ calls' = [calls EXCEPT ![c].i = @ + 1]
    /\ UNCHANGED <<current_index, gen, transport, inline>>

\* the loop ends and markdown_to_gdocs returns result
Return(c) ==
    /\ calls[c].pc = "walk"
    /\ ~(calls[c].i < Len(calls[c].tokens))
    /\ calls' = [calls EXCEPT ![c].pc = "returned"]
    /\ UNCHANGED <<current_index, gen, transport, inline>>

\* generate_batch_requests(conversion) is called on the returned result
CallGenerate ==
    /\ calls[1].pc = "returned"
    /\ gen.pc = "idle"
    /\ gen' = [IdleGen EXCEPT !.pc = "lists", !.conversion = calls[1].result]
    /\ UNCHANGED <<current_index, calls, transport, inline>>

\* conversion.list_ranges after the grouping loop: current_group is a dict
\* of its own, built from the values of a range, so the assignment to
\* current_group["end_index"] reaches no list range
ListRangesAfterGrouping(list_ranges) == list_ranges

\* the outcome r of the bullet loop over list_groups is stored
ListsDone(list_groups, r) ==
    gen' = [gen EXCEPT !.pc = "styles", !.list_groups = list_groups,
                       !.requests = r.requests,
                       !.tab_offset = Some(r.tab_offset),
                       !.conversion.list_ranges = ListRangesAfterGrouping(@)]

\* the groups are bulletized in order, tab_offset starting at 0
BulletGroups(list_groups) ==
    ListsDone(list_groups,
              BulletLoop(gen.conversion.plain_text, list_groups, gen.requests, 0))

\* step 1: group the list ranges and emit one createParagraphBullets per group
GenerateLists ==
    /\ gen.pc = "lists"
    /\ IF gen.conversion.list_ranges # <<>>
       THEN BulletGroups(GroupLists(gen.conversion.list_ranges))
       ELSE gen' = [gen EXCEPT !.pc = "styles"]
    /\ UNCHANGED <<current_index, calls, transport, inline>>

\* step 2: the style requests of the format ranges
GenerateStyles ==
    /\ gen.pc = "styles"
    /\ gen' = [gen EXCEPT !.pc = "tables",
                          !.requests = StyleRequests(gen.conversion, @)]
    /\ UNCHANGED <<current_index, calls, transport, inline>>

\* conversion.tables.reverse(): the list reversed in place
TablesReversedInPlace(tables) == Reversed(tables)

\* conversion.tables after `for table in reversed(conversion.tables)`:
\* reversed() walks the list backwards through an iterator and leaves the
\* list as it is
TablesAfterIteration(tables) == tables

\* requests.extend(table_requests); return requests - or the exception
TablesDone(r) ==
    IF r.error = ""
    THEN gen' = [gen EXCEPT !.pc = "done", !.requests = @ \o r.requests,
                            !.conversion.tables = TablesAfterIteration(@)]
    ELSE gen' = [gen EXCEPT !.pc = "raised", !.error = r.error,
                            !.conversion.tables = TablesAfterIteration(@)]

\* step 3: the table requests, then return requests; an exception raised by
\* _generate_table_requests propagates and nothing is returned
GenerateTables ==
    /\ gen.pc = "tables"
    /\ IF gen.conversion.tables # <<>>
       THEN TablesDone(GenerateTableRequests(gen.conversion))
       ELSE gen' = [gen EXCEPT !.pc = "done"]
    /\ UNCHANGED <<current_index, calls, transport, inline>>

Next ==
    \/ Begin(1)
    \/ HandleHeading(1)
    \/ HandleParagraph(1)
    \/ HandleList(1)
    \/ HandleBlockquote(1)
    \/ HandleCodeBlock(1)
    \/ HandleHr(1)
    \/ HandleTable(1)
    \/ SkipToken(1)
    \/ Return(1)
    \/ CallGenerate
    \/ GenerateLists
    \/ GenerateStyles
    \/ GenerateTables

Spec == Init /\ [][Next]_vars

\* ConversionResults handed to generate_batch_requests directly (the method
\* is public and the dataclasses are freely constructible): over the text
\* "ab\n", format ranges with every start and end in 1..3 (end < start too),
\* an optional list range, and tables with no row, an empty row, one header
\* cell, a header row with an empty cell over a body row, no header row, or
\* a header row shorter than the body row
DirectFormatRanges ==
    {FormatRange(a, b, kind, IF kind = "heading" THEN 1 ELSE 0, None, None) :
        a \in 1..3, b \in 1..3, kind \in {"bold", "heading"}}
    \cup {FormatRange(1, 3, "heading", level, None, None) : level \in 2..6}

\* the largest number of format ranges of a directly constructed result
MaxDirectRanges == 1

DirectTables ==
    { <<>>,
      <<TableData(1, <<>>)>>,
      <<TableData(1, << <<>> >>)>>,
      <<TableData(1, << <<TableCell(<<"h">>, TRUE)>> >>)>>,
      <<TableData(1, << <<TableCell(<<>>, TRUE), TableCell(<<"k">>, TRUE)>>,
                        <<TableCell(<<"c", "c">>, FALSE),
                          TableCell(<<"d">>, FALSE)>> >>)>>,
      <<TableData(1, << <<TableCell(<<"h", "h">>, TRUE),
                          TableCell(<<"k">>, TRUE)>> >>)>>,
      <<TableData(1, << <<TableCell(<<"c">>, FALSE),
                          TableCell(<<"d">>, FALSE)>> >>)>>,
      <<TableData(1, << <<TableCell(<<"h">>, TRUE)>>,
                        <<TableCell(<<"c">>, FALSE),
                          TableCell(<<"d">>, FALSE)>> >>)>> }

DirectResults ==
    {[plain_text |-> <<"a", "b", NL>>, format_ranges |-> fr,
      list_ranges |-> lr, tables |-> tb] :
        fr \in UNION {[1..n -> DirectFormatRanges] : n \in 0..MaxDirectRanges},
        lr \in {<<>>, <<ListRange(1, 4, FALSE, 0)>>},
        tb \in DirectTables}

\* generate_batch_requests called on a directly constructed ConversionResult
InitGen ==
    /\ current_index = [o \in Converters |-> 1]
    /\ calls = [c \in CallIds |-> IdleCall]
    /\ \E conversion \in DirectResults :
          gen = [IdleGen EXCEPT !.pc = "lists", !.conversion = conversion]
    /\ transport = IdleTransport
    /\ inline = IdleInline

NextGen ==
    \/ GenerateLists
    \/ GenerateStyles
    \/ GenerateTables

SpecGen == InitGen /\ [][NextGen]_vars

\* the largest number of top-level blocks of a document converted concurrently
MaxConcBlocks == 1

ConcDocuments ==
    {Flatten(d) : d \in UNION {[1..n -> 1..Len(Library)] : n \in 0..MaxConcBlocks}}

\* two markdown_to_gdocs calls are about to run in two threads, on the same
\* converter object or on two objects; a thread switch may fall between any
\* two handler calls
InitConc ==
    /\ current_index = [o \in Converters |-> 1]
    /\ \E t1 \in ConcDocuments, t2 \in ConcDocuments, o2 \in Converters :
          calls = [c \in CallIds |->
                      IF c = 1 THEN NewCall("conv1", t1) ELSE NewCall(o2, t2)]
    /\ gen = IdleGen
    /\ transport = IdleTransport
    /\ inline = IdleInline

NextConc ==
    \E c \in CallIds :
        \/ Begin(c)
        \/ HandleHeading(c)
        \/ HandleParagraph(c)
        \/ HandleList(c)
        \/ HandleBlockquote(c)
        \/ HandleCodeBlock(c)
        \/ HandleHr(c)
        \/ HandleTable(c)
        \/ SkipToken(c)
        \/ Return(c)

SpecConc == InitConc /\ [][NextConc]_vars

\* markdown_to_gdocs is called again on the same converter with the same
\* markdown once the first call has returned
CallAgain ==
    /\ calls[1].pc = "returned"
    /\ calls[2].pc = "idle"
    /\ calls' = [calls EXCEPT ![2] = NewCall(calls[1].self, calls[1].tokens)]
    /\ UNCHANGED <<current_index, gen, transport, inline>>

NextRepeat ==
    \/ \E c \in CallIds :
          \/ Begin(c)
          \/ HandleHeading(c)
          \/ HandleParagraph(c)
          \/ HandleList(c)
          \/ HandleBlockquote(c)
          \/ HandleCodeBlock(c)
          \/ HandleHr(c)
          \/ HandleTable(c)
          \/ SkipToken(c)
          \/ Return(c)
    \/ CallAgain

SpecRepeat == Init /\ [][NextRepeat]_vars

\* generate_batch_requests is called a second time on the object its first
\* call was given, the caller keeping the first list
GenerateAgain ==
    /\ gen.pc = "done"
    /\ gen.previous = None
    /\ gen' = [IdleGen EXCEPT !.pc = "lists", !.conversion = gen.conversion,
                              !.previous = Some(gen.requests)]
    /\ UNCHANGED <<current_index, calls, transport, inline>>

NextRegenerate ==
    \/ Begin(1)
    \/ HandleHeading(1)
    \/ HandleParagraph(1)
    \/ HandleList(1)
    \/ HandleBlockquote(1)
    \/ HandleCodeBlock(1)
    \/ HandleHr(1)
    \/ HandleTable(1)
    \/ SkipToken(1)
    \/ Return(1)
    \/ CallGenerate
    \/ GenerateLists
    \/ GenerateStyles
    \/ GenerateTables
    \/ GenerateAgain

SpecRegenerate == Init /\ [][NextRegenerate]_vars

(* ------------------------------------------------------------------ *)
(* _process_inline called on an arbitrary child sequence                *)
(* ------------------------------------------------------------------ *)

\* the children a sequence is built from; no token closes a link
InlineChildren ==
    {Txt(<<"a">>), Code(<<"c">>), Tok("softbreak"),
     Tok("strong_open"), Tok("strong_close"), Tok("em_open"), Tok("em_close"),
     [Tok("link_open") EXCEPT !.attrs = <<<<"u">>>>]}

\* the largest number of children of the token
MaxChildren == 3

\* _process_inline is about to run on a token with up to MaxChildren
\* children, spans left open included, with the cursor at 1 or further on
InitInline ==
    /\ current_index = [o \in Converters |-> 1]
    /\ calls = [c \in CallIds |-> IdleCall]
    /\ gen = IdleGen
    /\ transport = IdleTransport
    /\ \E children \in UNION {[1..n -> InlineChildren] : n \in 0..MaxChildren},
          cur \in {1, 3} :
          inline = [pc |-> "called", children |-> children,
                    s |-> [i |-> 0, st |-> WalkState(cur, EmptyResult),
                           text |-> <<>>]]

\* if not token.children: return ""
InlineReturnEmpty ==
    /\ inline.pc = "called"
    /\ inline.children = <<>>
    /\ inline' = [inline EXCEPT !.pc = "returned"]
    /\ UNCHANGED <<current_index, calls, gen, transport>>

\* text = ""; i = 0
InlineEnter ==
    /\ inline.pc = "called"
    /\ inline.children # <<>>
    /\ inline' = [inline EXCEPT !.pc = "loop"]
    /\ UNCHANGED <<current_index, calls, gen, transport>>

\* one iteration of the while loop
InlineIterate ==
    /\ inline.pc = "loop"
    /\ inline.s.i < Len(inline.children)
    /\ inline' = [inline EXCEPT !.s = InlineStep(inline.children, @,
                                     inline.children[inline.s.i + 1])]
    /\ UNCHANGED <<current_index, calls, gen, transport>>

\* the loop ends: return text
InlineReturn ==
    /\ inline.pc = "loop"
    /\ ~(inline.s.i < Len(inline.children))
    /\ inline' = [inline EXCEPT !.pc = "returned"]
    /\ UNCHANGED <<current_index, calls, gen, transport>>

NextInline ==
    \/ InlineReturnEmpty
    \/ InlineEnter
    \/ InlineIterate
    \/ InlineReturn

SpecInline == InitInline /\ [][NextInline]_vars

\* the call runs on: a sequential program takes its next step
SpecInlineFair == SpecInline /\ WF_vars(NextInline)

(* ------------------------------------------------------------------ *)
(* Transport callers (scripts/docs_operations.py)                       *)
(* ------------------------------------------------------------------ *)

\* the end index of the content an updated document holds already
ExistingEnd == 3

\* create_from_markdown or update_from_markdown is about to run on a markdown
\* file, with or without the converter module at its expected path; an
\* updated document is empty or holds content
InitSend ==
    /\ current_index = [o \in Converters |-> 1]
    /\ calls = [c \in CallIds |-> IdleCall]
    /\ gen = IdleGen
    /\ inline = IdleInline
    /\ \E caller \in {"create", "update"}, found \in BOOLEAN,
          tokens \in Documents, end_index \in {1, ExistingEnd} :
          /\ caller = "create" => end_index = 1
          /\ transport = [IdleTransport EXCEPT !.caller = caller,
                             !.found = found, !.markdown = tokens,
                             !.end_index = end_index, !.pc = "start"]

DeleteContentRange(start, end) ==
    [op |-> "deleteContentRange", startIndex |-> start, endIndex |-> end]

\* the file's content inserted as it is, of which the model keeps no text
FallbackRequest ==
    [op |-> "insertText", index |-> 1, text |-> <<"markdown_content">>]

\* a batchUpdate sent ahead of the batches sent before it
ExecuteAhead(sent, requests) == <<requests>> \o sent

\* documents().batchUpdate(body={"requests": requests}).execute(): one
\* batch, sent after the batches sent before it
Execute(sent, requests) == Append(sent, requests)

\* update_from_markdown: the document is read and its content deleted
ClearDocument ==
    /\ transport.caller = "update"
    /\ transport.pc = "start"
    /\ transport' = [transport EXCEPT
          !.pc = "ready",
          !.sent = IF transport.end_index > 1
                   THEN Execute(@, <<DeleteContentRange(1, transport.end_index)>>)
                   ELSE @]
    /\ UNCHANGED <<current_index, calls, gen, inline>>

\* the caller is at the test of portals_converter_path.exists()
AtConverterTest ==
    \/ transport.caller = "create" /\ transport.pc = "start"
    \/ transport.pc = "ready"

\* converter = GoogleDocsConverter(); converter.markdown_to_gdocs(...)
CallConverter ==
    /\ AtConverterTest
    /\ transport.found
    /\ calls' = [calls EXCEPT ![1] = NewCall("conv1", transport.markdown)]
    /\ transport' = [transport EXCEPT !.pc = "converting"]
    /\ UNCHANGED <<current_index, gen, inline>>

\* create_from_markdown: documents().create() once the requests are built
CreateDocument ==
    /\ transport.caller = "create"
    /\ transport.pc = "converting"
    /\ gen.pc = "done"
    /\ transport' = [transport EXCEPT !.pc = "created"]
    /\ UNCHANGED <<current_index, calls, gen, inline>>

\* if plain_text: the insertText of plain_text at index 1, a batch of its own
InsertPlainText ==
    /\ \/ transport.caller = "create" /\ transport.pc = "created"
       \/ transport.caller = "update" /\ transport.pc = "converting"
                                      /\ gen.pc = "done"
    /\ transport' = [transport EXCEPT
          !.pc = "inserted",
          !.sent = IF calls[1].result.plain_text # <<>>
                   THEN Execute(@, <<InsertText(1, calls[1].result.plain_text)>>)
                   ELSE @]
    /\ UNCHANGED <<current_index, calls, gen, inline>>

\* if batch_requests: the list generate_batch_requests returned, one batch
ApplyFormatting ==
    /\ transport.pc = "inserted"
    /\ transport' = [transport EXCEPT
          !.pc = "finished",
          !.sent = IF gen.requests # <<>> THEN Execute(@, gen.requests) ELSE @]
    /\ UNCHANGED <<current_index, calls, gen, inline>>

\* the converter module is not found: the markdown is inserted as plain text
FallbackInsert ==
    /\ AtConverterTest
    /\ ~transport.found
    /\ transport' = [transport EXCEPT !.pc = "finished",
                                      !.sent = Execute(@, <<FallbackRequest>>)]
    /\ UNCHANGED <<current_index, calls, gen, inline>>

\* an exception leaves the import of the converter, markdown_to_gdocs or
\* generate_batch_requests: the call in progress ends, and the except clause
\* of the caller prints the message to stderr and exits with status 1
ConverterRaises ==
    /\ transport.pc = "converting"
    /\ gen.pc # "done"
    /\ calls' = [calls EXCEPT ![1].pc = IF @ = "returned" THEN @ ELSE "raised"]
    /\ gen' = IF calls[1].pc = "returned"
              THEN [gen EXCEPT !.pc = "raised", !.error = "Exception"]
              ELSE gen
    /\ transport' = [transport EXCEPT !.pc = "aborted", !.error = "Exception"]
    /\ UNCHANGED <<current_index, inline>>

NextSend ==
    \/ ClearDocument
    \/ CallConverter
    \/ Begin(1)
    \/ HandleHeading(1)
    \/ HandleParagraph(1)
    \/ HandleList(1)
    \/ HandleBlockquote(1)
    \/ HandleCodeBlock(1)
    \/ HandleHr(1)
    \/ HandleTable(1)
    \/ SkipToken(1)
    \/ Return(1)
    \/ CallGenerate
    \/ GenerateLists
    \/ GenerateStyles
    \/ GenerateTables
    \/ CreateDocument
    \/ InsertPlainText
    \/ ApplyFormatting
    \/ FallbackInsert
    \/ ConverterRaises

SpecSend == InitSend /\ [][NextSend]_vars

(* ------------------------------------------------------------------ *)
(* Properties                                                           *)
(* ------------------------------------------------------------------ *)

\* the conversion under examination: the result of call 1 and the request
\* list generate_batch_requests builds from it
Returned == calls[1].pc = "returned"

Done == gen.pc = "done"

Generated == gen.pc \in {"styles", "tables", "done"}

SeqRange(s) == {s[k] : k \in 1..Len(s)}

MaxOf(S) == CHOOSE m \in S : \A x \in S : x <= m

MinOf(S) == CHOOSE m \in S : \A x \in S : m <= x

\* the number of requests emitted for one FormatRange
NumRequests(fr) ==
    IF fr.format_type \in {"code_block", "blockquote"} THEN 2
    ELSE IF fr.format_type \in {"heading", "bold", "italic", "code_inline",
                                "link"}
    THEN 1 ELSE 0

\* the number of requests emitted for the first k format ranges
RECURSIVE RequestsUpTo(_, _)
RequestsUpTo(format_ranges, k) ==
    IF k = 0 THEN 0
    ELSE RequestsUpTo(format_ranges, k - 1) + NumRequests(format_ranges[k])

IsBullet(q) == q.op = "createParagraphBullets"

IsTableRequest(q) ==
    \/ q.op \in {"insertTable", "insertText", "updateTableCellStyle"}
    \/ q.op = "updateTextStyle" /\ q.fields = "foregroundColor,bold"

IsStyleRequest(q) == ~IsBullet(q) /\ ~IsTableRequest(q)

NumBullets(requests) ==
    Cardinality({k \in 1..Len(requests) : IsBullet(requests[k])})

NumTableRequests(requests) ==
    Cardinality({k \in 1..Len(requests) : IsTableRequest(requests[k])})

\* the m-th request emitted for the k-th format range, the style requests
\* following the bullet requests
StyleRequestOf(k, m) ==
    gen.requests[NumBullets(gen.requests)
                 + RequestsUpTo(gen.conversion.format_ranges, k - 1) + m]

\* the positions of plain_text that hold an indentation tab of a list item
IndentTabs(conversion) ==
    UNION {lr.start_index .. (lr.start_index + lr.nesting_level - 1) :
              lr \in SeqRange(conversion.list_ranges)}

\* the number of indentation tabs that bulletizing removes before position p
RemovedBefore(conversion, p) ==
    Cardinality({q \in IndentTabs(conversion) : q < p})

\* C1: every style request addresses, in the buffer left after bulletizing
\* has removed the indentation tabs of the list items, the characters its
\* FormatRange addresses in plain_text: startIndex and endIndex are the
\* range's start and end minus the number of tabs removed before them
StyleRequestsAddressRecordedText ==
    Done =>
        \A k \in 1..Len(gen.conversion.format_ranges) :
            \A m \in 1..NumRequests(gen.conversion.format_ranges[k]) :
                /\ StyleRequestOf(k, m).startIndex
                     = gen.conversion.format_ranges[k].start_index
                       - RemovedBefore(gen.conversion,
                             gen.conversion.format_ranges[k].start_index)
                /\ StyleRequestOf(k, m).endIndex
                     = gen.conversion.format_ranges[k].end_index
                       - RemovedBefore(gen.conversion,
                             gen.conversion.format_ranges[k].end_index)

\* C2: between two blocks and after markdown_to_gdocs has returned,
\* current_index - 1 = len(plain_text): every block handler, the horizontal
\* rule with its fixed advance included, advances the cursor by exactly the
\* number of characters it appended
CursorMatchesBuffer ==
    calls[1].pc \in {"walk", "returned"} =>
        current_index[calls[1].self] - 1 = Len(calls[1].result.plain_text)

\* the text of an inline token starts with a checkbox marker
HasCheckbox(token) ==
    /\ token.type = "inline"
    /\ StripCheckbox(ProcessInline(token, WalkState(1, EmptyResult)).text)
         # ProcessInline(token, WalkState(1, EmptyResult)).text

\* a document with a horizontal rule and a checkbox list item was converted
HrAndCheckboxConverted ==
    /\ Returned
    /\ \E k \in 1..Len(calls[1].tokens) : calls[1].tokens[k].type = "hr"
    /\ \E k \in 1..Len(calls[1].tokens) : HasCheckbox(calls[1].tokens[k])
    /\ calls[1].result.list_ranges # <<>>

\* C3: every FormatRange of a returned result satisfies
\* 0 <= start <= end <= len(plain_text) + 1, spans inside checkbox list
\* items included
FormatRangesWithinBuffer ==
    Returned =>
        \A fr \in SeqRange(calls[1].result.format_ranges) :
            /\ 0 <= fr.start_index
            /\ fr.start_index <= fr.end_index
            /\ fr.end_index <= Len(calls[1].result.plain_text) + 1

KindFields(format_type) ==
    CASE format_type = "heading" -> {"namedStyleType"}
      [] format_type = "bold" -> {"bold"}
      [] format_type = "italic" -> {"italic"}
      [] format_type = "code_inline" -> {"fontSize"}
      [] format_type = "link" -> {"link"}
      [] format_type = "code_block" ->
           {"weightedFontFamily,fontSize,backgroundColor",
            "indentStart,indentEnd"}
      [] format_type = "blockquote" ->
           {"indentStart,borderLeft", "backgroundColor"}
      [] OTHER -> {}

\* the tab characters among the first p characters of a text
TabsUpTo(text, p) ==
    Cardinality({k \in 1..Min(p, Len(text)) : text[k] = TAB})

\* C5: in the returned list the createParagraphBullets requests come first,
\* the table requests come last, the style requests lie between them, and
\* the style requests follow the order of format_ranges
RequestsAreOrdered ==
    Done =>
        /\ \A k \in 1..Len(gen.requests) :
              /\ k <= NumBullets(gen.requests) => IsBullet(gen.requests[k])
              /\ k > Len(gen.requests) - NumTableRequests(gen.requests)
                    => IsTableRequest(gen.requests[k])
              /\ (/\ k > NumBullets(gen.requests)
                  /\ k <= Len(gen.requests) - NumTableRequests(gen.requests))
                    => IsStyleRequest(gen.requests[k])
        /\ Len(gen.requests) = NumBullets(gen.requests)
              + RequestsUpTo(gen.conversion.format_ranges,
                             Len(gen.conversion.format_ranges))
              + NumTableRequests(gen.requests)
        /\ \A k \in 1..Len(gen.conversion.format_ranges) :
              \A m \in 1..NumRequests(gen.conversion.format_ranges[k]) :
                 /\ StyleRequestOf(k, m).fields
                      \in KindFields(gen.conversion.format_ranges[k].format_type)
                 /\ StyleRequestOf(k, m).startIndex
                      = gen.conversion.format_ranges[k].start_index
                        - TabsUpTo(gen.conversion.plain_text,
                              gen.conversion.format_ranges[k].start_index)
                 /\ StyleRequestOf(k, m).endIndex
                        - StyleRequestOf(k, m).startIndex
                      = gen.conversion.format_ranges[k].end_index
                        - gen.conversion.format_ranges[k].start_index

\* requests of all three kinds were returned, two of them style requests of
\* different format ranges
AllRequestKindsReturned ==
    /\ Done
    /\ NumBullets(gen.requests) >= 1
    /\ Len(gen.conversion.format_ranges) >= 2
    /\ NumTableRequests(gen.requests) >= 1

\* the result markdown_to_gdocs returns for a document when it runs alone
Alone(tokens) ==
    ProcessTokens(tokens, [i |-> 0, st |-> WalkState(1, EmptyResult)]).st.res

\* C6: two concurrent markdown_to_gdocs calls, on two converter objects or
\* on the same one, do not interfere: under every interleaving each call
\* returns the result it returns when it runs alone
ConcurrentCallsDoNotInterfere ==
    \A c \in CallIds :
        calls[c].pc = "returned" => calls[c].result = Alone(calls[c].tokens)

\* C7: generate_batch_requests never returns a request list built from a
\* FormatRange with end < start or from a table with zero columns
MalformedRecordsAreRejected ==
    Done =>
        /\ \A fr \in SeqRange(gen.conversion.format_ranges) :
              fr.end_index >= fr.start_index
        /\ \A tb \in SeqRange(gen.conversion.tables) : tb.num_cols > 0

\* the list ranges that open a group: the first one, and every later one
\* that has another ordered flag than the group before it, or starts after
\* the running end (the largest end so far) of that group
GroupStarts(lr) ==
    LET IsStart[k \in 1..Len(lr)] ==
            IF k = 1 THEN TRUE
            ELSE LET g == MaxOf({h \in 1..(k - 1) : IsStart[h]})
                 IN ~(/\ lr[k].ordered = lr[g].ordered
                      /\ lr[k].start_index
                           <= MaxOf({lr[h].end_index : h \in g..(k - 1)}))
    IN {k \in 1..Len(lr) : IsStart[k]}

\* the group opened by the range g: it reaches to the range before the next
\* opening one
GroupFrom(lr, starts, g) ==
    [ordered |-> lr[g].ordered, start_index |-> lr[g].start_index,
     end_index |->
        MaxOf({lr[h].end_index :
                 h \in g..(MinOf({t \in starts \cup {Len(lr) + 1} : t > g}) - 1)})]

\* the j-th smallest element of a set of numbers
Nth(S, j) == CHOOSE x \in S : Cardinality({y \in S : y <= x}) = j

\* C8: the list ranges are folded left to right into groups, a range joining
\* the current group exactly when it has the same ordered flag and starts
\* at or before the group's running end; one createParagraphBullets request
\* is emitted per group, over the group's span
GroupingIsTheFold ==
    (Generated /\ gen.conversion.list_ranges # <<>>) =>
        /\ Len(gen.list_groups)
             = Cardinality(GroupStarts(gen.conversion.list_ranges))
        /\ NumBullets(gen.requests) = Len(gen.list_groups)
        /\ \A j \in 1..Len(gen.list_groups) :
              /\ gen.list_groups[j]
                   = GroupFrom(gen.conversion.list_ranges,
                               GroupStarts(gen.conversion.list_ranges),
                               Nth(GroupStarts(gen.conversion.list_ranges), j))
              /\ IsBullet(gen.requests[j])
              /\ gen.requests[j].bulletPreset
                   = BulletPreset(gen.list_groups[j].ordered)
              /\ gen.requests[j].endIndex - gen.requests[j].startIndex
                   = gen.list_groups[j].end_index - 1
                     - gen.list_groups[j].start_index

\* the two adjacent items of a single-level list were merged into one group
\* and bulletized by one request
AdjacentItemsMerged ==
    /\ Done
    /\ Len(gen.conversion.list_ranges) = 2
    /\ gen.conversion.list_ranges[1].nesting_level = 0
    /\ gen.conversion.list_ranges[2].nesting_level = 0
    /\ gen.conversion.list_ranges[2].start_index
         = gen.conversion.list_ranges[1].end_index
    /\ Len(gen.list_groups) = 1
    /\ NumBullets(gen.requests) = 1

\* the text a list item keeps from an inline token is not blank
ItemKeepsText(token) ==
    Strip(StripCheckbox(ProcessInline(token, WalkState(1, EmptyResult)).text))
        # <<>>

\* the levels of the list ranges a token stream yields, by one scan that
\* counts the lists open at each token: depth is the number of open lists,
\* pending holds for every open item whether it has text not yet committed
RECURSIVE EnclosingLists(_, _, _, _, _)
EnclosingLists(tokens, k, depth, pending, levels) ==
    IF k > Len(tokens) THEN levels
    ELSE IF IsListOpen(tokens[k].type)
    THEN EnclosingLists(tokens, k + 1, depth + 1,
             IF pending # <<>> THEN [pending EXCEPT ![Len(pending)] = FALSE]
             ELSE pending,
             IF pending # <<>> /\ pending[Len(pending)]
             THEN Append(levels, depth - 1) ELSE levels)
    ELSE IF IsListClose(tokens[k].type)
    THEN EnclosingLists(tokens, k + 1, depth - 1, pending, levels)
    ELSE IF tokens[k].type = "list_item_open"
    THEN EnclosingLists(tokens, k + 1, depth, Append(pending, FALSE), levels)
    ELSE IF tokens[k].type = "list_item_close"
    THEN EnclosingLists(tokens, k + 1, depth,
             SubSeq(pending, 1, Len(pending) - 1),
             IF pending[Len(pending)] THEN Append(levels, depth - 1)
             ELSE levels)
    ELSE IF tokens[k].type = "inline" /\ pending # <<>>
            /\ ItemKeepsText(tokens[k])
    THEN EnclosingLists(tokens, k + 1, depth,
             [pending EXCEPT ![Len(pending)] = TRUE], levels)
    ELSE EnclosingLists(tokens, k + 1, depth, pending, levels)

\* C9: the nesting_level of every recorded list range is the number of lists
\* that enclose the item's own list: 0 at the outermost list, one more for
\* each nested list entered, and back when the nested list is left
NestingLevelCountsEnclosingLists ==
    Returned =>
        [k \in 1..Len(calls[1].result.list_ranges) |->
            calls[1].result.list_ranges[k].nesting_level]
          = EnclosingLists(calls[1].tokens, 1, 0, <<>>, <<>>)

\* a range of a nested list was recorded, and after it a range of the
\* outermost list again
NestedListEnteredAndLeft ==
    /\ Returned
    /\ \E j \in 1..(Len(calls[1].result.list_ranges) - 1) :
          /\ calls[1].result.list_ranges[j].nesting_level = 1
          /\ calls[1].result.list_ranges[j + 1].nesting_level = 0

\* C10: a list range of level n starts where the item's indentation starts
\* (at the start of the text or right after the preceding character of the
\* buffer), the n characters from start on are tabs, the item's text lies
\* between them and the newline at end - 1, and a range of a nested list
\* that follows a range of its parent's level starts at or after that
\* range's end
ListRangesHoldTabsAndNewline ==
    Returned =>
        \A j \in 1..Len(calls[1].result.list_ranges) :
            /\ \A k \in 0..(calls[1].result.list_ranges[j].nesting_level - 1) :
                  calls[1].result.plain_text[
                      calls[1].result.list_ranges[j].start_index + k] = TAB
            /\ calls[1].result.list_ranges[j].start_index
                 + calls[1].result.list_ranges[j].nesting_level
                    < calls[1].result.list_ranges[j].end_index - 1
            /\ calls[1].result.list_ranges[j].end_index - 1
                 <= Len(calls[1].result.plain_text)
            /\ calls[1].result.plain_text[
                   calls[1].result.list_ranges[j].end_index - 1] = NL
            /\ \/ calls[1].result.list_ranges[j].start_index = 1
               \/ calls[1].result.plain_text[
                      calls[1].result.list_ranges[j].start_index - 1]
                    \in {NL, TAB}
            /\ (/\ j > 1
                /\ calls[1].result.list_ranges[j].nesting_level
                     = calls[1].result.list_ranges[j - 1].nesting_level + 1)
                  => calls[1].result.list_ranges[j - 1].end_index
                       <= calls[1].result.list_ranges[j].start_index

\* a parent item with content was committed, and right after it the range
\* of its nested item, which starts at the parent's end with a tab
ParentCommittedBeforeNested ==
    /\ Returned
    /\ \E j \in 1..(Len(calls[1].result.list_ranges) - 1) :
          /\ calls[1].result.list_ranges[j].nesting_level = 0
          /\ calls[1].result.list_ranges[j + 1].nesting_level = 1
          /\ calls[1].result.list_ranges[j + 1].start_index
               = calls[1].result.list_ranges[j].end_index
          /\ calls[1].result.plain_text[
                 calls[1].result.list_ranges[j + 1].start_index] = TAB

\* the paragraph "**bold** text"
BoldTextParagraph ==
    Para(Strong(<<"b", "o", "l", "d">>) \o <<Txt(<<SP, "t", "e", "x", "t">>)>>)

\* C11 as stated: converting the paragraph "**bold** text" yields the plain
\* text "bold text" and exactly one FormatRange, bold from 1 to 5
BoldScenarioWithoutNewline ==
    (Returned /\ calls[1].tokens = BoldTextParagraph) =>
        /\ calls[1].result.plain_text
             = <<"b", "o", "l", "d", SP, "t", "e", "x", "t">>
        /\ Len(calls[1].result.format_ranges) = 1
        /\ calls[1].result.format_ranges[1].format_type = "bold"
        /\ calls[1].result.format_ranges[1].start_index = 1
        /\ calls[1].result.format_ranges[1].end_index = 5

\* C11 amended: converting the paragraph "**bold** text" yields the plain
\* text "bold text\n" (the paragraph's terminating newline included) and
\* exactly one FormatRange, bold from 1 to 5
BoldScenario ==
    (Returned /\ calls[1].tokens = BoldTextParagraph) =>
        /\ calls[1].result.plain_text
             = <<"b", "o", "l", "d", SP, "t", "e", "x", "t", NL>>
        /\ Len(calls[1].result.format_ranges) = 1
        /\ calls[1].result.format_ranges[1].format_type = "bold"
        /\ calls[1].result.format_ranges[1].start_index = 1
        /\ calls[1].result.format_ranges[1].end_index = 5
        /\ calls[1].result.list_ranges = <<>>
        /\ calls[1].result.tables = <<>>

\* the paragraph "**bold** text" was converted
BoldParagraphConverted ==
    /\ Returned
    /\ calls[1].tokens = BoldTextParagraph
    /\ calls[1].result.format_ranges # <<>>

\* the numeral of a heading tag
TagNumeral(tag) ==
    CHOOSE n \in 1..6 :
        <<tag, n>> \in {<<"h1", 1>>, <<"h2", 2>>, <<"h3", 3>>, <<"h4", 4>>,
                        <<"h5", 5>>, <<"h6", 6>>}

\* a text without the whitespace at its two ends
Trimmed(text) ==
    IF \A k \in 1..Len(text) : text[k] \in {SP, NL, TAB} THEN <<>>
    ELSE SubSeq(text,
                MinOf({k \in 1..Len(text) : text[k] \notin {SP, NL, TAB}}),
                MaxOf({k \in 1..Len(text) : text[k] \notin {SP, NL, TAB}}))

\* the heading ranges among the format ranges from index k on
HeadingsFrom(format_ranges, k) ==
    {j \in k..Len(format_ranges) : format_ranges[j].format_type = "heading"}

\* the last format range of a result
LastRange(result) == result.format_ranges[Len(result.format_ranges)]

\* C12: processing a heading block records exactly one heading FormatRange:
\* its start is the cursor at the heading's opening, its end the cursor
\* after the inline content and before the trailing newline (the character
\* at position end is that newline), its level the numeral of the heading
\* tag, its text the trimmed rendered text; "# Title" gives "Title\n" and
\* the range {heading, level 1, start 1, end 6}
HeadingRangeSpansInlineContent ==
    [][(AtBlock(1, {"heading_open"}) /\ calls' # calls) =>
         /\ Cardinality(HeadingsFrom(calls'[1].result.format_ranges,
                            Len(calls[1].result.format_ranges) + 1)) = 1
         /\ LastRange(calls'[1].result).format_type = "heading"
         /\ LastRange(calls'[1].result).start_index = current_index["conv1"]
         /\ LastRange(calls'[1].result).end_index
              = current_index'["conv1"] - 1
         /\ calls'[1].result.plain_text[LastRange(calls'[1].result).end_index]
              = NL
         /\ Len(calls'[1].result.plain_text)
              = LastRange(calls'[1].result).end_index
         /\ LastRange(calls'[1].result).level
              = TagNumeral(calls[1].tokens[calls[1].i + 1].tag)
         /\ LastRange(calls'[1].result).text
              = Some(Trimmed(SubSeq(calls'[1].result.plain_text,
                                    LastRange(calls'[1].result).start_index,
                                    LastRange(calls'[1].result).end_index - 1)))
         /\ (calls[1].tokens = Heading("h1", <<Txt(<<"T", "i", "t", "l", "e">>)>>)
               => /\ calls'[1].result.plain_text
                       = <<"T", "i", "t", "l", "e", NL>>
                  /\ calls'[1].result.format_ranges
                       = <<FormatRange(1, 6, "heading", 1, None,
                                       Some(<<"T", "i", "t", "l", "e">>))>>)
    ]_vars

\* a heading was converted whose rendered text ends with a blank that the
\* recorded text does not keep, after another block
HeadingTrimmedAfterBlock ==
    /\ Returned
    /\ \E fr \in SeqRange(calls[1].result.format_ranges) :
          /\ fr.format_type = "heading"
          /\ fr.level = 2
          /\ fr.start_index > 1
          /\ fr.text # Some(SubSeq(calls[1].result.plain_text, fr.start_index,
                                   fr.end_index - 1))

\* the positions of the insertTable requests of a request list
TableStarts(requests) ==
    {k \in 1..Len(requests) : requests[k].op = "insertTable"}

\* the block of requests that starts with the insertTable at position k and
\* reaches to the next insertTable or to the end of the list
BlockOf(requests, k) ==
    SubSeq(requests, k,
           MinOf({h \in TableStarts(requests) \cup {Len(requests) + 1} : h > k})
             - 1)

NumInserts(block) ==
    Cardinality({k \in 1..Len(block) : block[k].op = "insertText"})

\* the first row of a table is flagged as header
HasHeaderRow(table) ==
    /\ table.num_rows > 0
    /\ table.rows[1] # <<>>
    /\ \A c \in 1..Len(table.rows[1]) : table.rows[1][c].is_header

\* the sum over the cells j < c of a row of len(content_j) + 2
RECURSIVE WidthBefore(_, _)
WidthBefore(row, c) ==
    IF c <= 1 THEN 0
    ELSE WidthBefore(row, c - 1) + Len(row[c - 1].content) + 2

\* after the cell insertions a block holds the border operation over the
\* whole table; for a header row it is followed by one background operation
\* over the row and by one text-style operation for each of the given header
\* cells, in column order, over the cell's text; nothing else follows
StyledAfterInsertions(block, table, cells) ==
    /\ block[1].rows = table.num_rows
    /\ block[1].columns = table.num_cols
    /\ \A k \in 2..(1 + NumInserts(block)) : block[k].op = "insertText"
    /\ Len(block) >= 2 + NumInserts(block)
    /\ block[2 + NumInserts(block)]
         = [op |-> "updateTableCellStyle", tableStart |-> block[1].index + 1,
            rowIndex |-> 0, columnIndex |-> 0, rowSpan |-> table.num_rows,
            columnSpan |-> table.num_cols,
            fields |-> "borderTop,borderBottom,borderLeft,borderRight"]
    /\ IF HasHeaderRow(table)
       THEN /\ Len(block) = 3 + NumInserts(block) + Cardinality(cells)
            /\ block[3 + NumInserts(block)]
                 = [op |-> "updateTableCellStyle",
                    tableStart |-> block[1].index + 1,
                    rowIndex |-> 0, columnIndex |-> 0, rowSpan |-> 1,
                    columnSpan |-> table.num_cols,
                    fields |-> "backgroundColor"]
            /\ \A j \in 1..Cardinality(cells) :
                  /\ block[3 + NumInserts(block) + j].op = "updateTextStyle"
                  /\ block[3 + NumInserts(block) + j].fields
                       = "foregroundColor,bold"
                  /\ block[3 + NumInserts(block) + j].startIndex
                       = block[1].index + 4
                         + WidthBefore(table.rows[1], Nth(cells, j))
                  /\ block[3 + NumInserts(block) + j].endIndex
                       = block[3 + NumInserts(block) + j].startIndex
                         + Len(table.rows[1][Nth(cells, j)].content)
       ELSE Len(block) = 2 + NumInserts(block)

\* C13 as stated: after the cell insertions of a table come the border
\* operation over the whole table and, when the first row is a header, one
\* background operation over that row and one bold/foreground text-style
\* operation for every header cell; otherwise only the border operation
EveryHeaderCellStyled ==
    Done =>
        \A k \in TableStarts(gen.requests) :
            \E table \in SeqRange(gen.conversion.tables) :
                StyledAfterInsertions(BlockOf(gen.requests, k), table,
                    IF table.num_rows > 0 THEN 1..Len(table.rows[1]) ELSE {})

\* C13 amended: as stated, with one bold/foreground text-style operation for
\* every header cell whose content is not empty (an empty header cell gets
\* none), over [adjustedIndex + 4 + sum over j < c of (len(content_j) + 2),
\* that start + len(content_c))
NonEmptyHeaderCellsStyled ==
    Done =>
        /\ Cardinality(TableStarts(gen.requests)) = Len(gen.conversion.tables)
        /\ \A k \in TableStarts(gen.requests) :
              \E table \in SeqRange(gen.conversion.tables) :
                  /\ gen.requests[k].index
                       = AdjustedIndex(gen.conversion.plain_text, table)
                  /\ StyledAfterInsertions(BlockOf(gen.requests, k), table,
                      IF table.num_rows > 0
                      THEN {c \in 1..Len(table.rows[1]) :
                               table.rows[1][c].content # <<>>}
                      ELSE {})

\* the requests of a table with an empty and a non-empty header cell were
\* returned
HeaderWithEmptyCellStyled ==
    /\ Done
    /\ \E table \in SeqRange(gen.conversion.tables) :
          /\ HasHeaderRow(table)
          /\ table.rows[1][1].content = <<>>
          /\ table.rows[1][2].content # <<>>
    /\ \E k \in 1..Len(gen.requests) :
          /\ gen.requests[k].op = "updateTextStyle"
          /\ gen.requests[k].fields = "foregroundColor,bold"

\* the FormatRanges a step appended: those of after beyond those of before
AppendedRanges(before, after) ==
    SubSeq(after.res.format_ranges, Len(before.res.format_ranges) + 1,
           Len(after.res.format_ranges))

\* _process_inline is called on token from the state st, and once more from
\* the state the first call left, with the cursor it started from: both calls
\* return the same text and append the same FormatRanges
SecondInlineAgrees(st, first, second) ==
    /\ second.text = first.text
    /\ AppendedRanges(first.st, second.st) = AppendedRanges(st, first.st)
    /\ SubSeq(second.st.res.format_ranges, 1, Len(first.st.res.format_ranges))
         = first.st.res.format_ranges

InlineTwiceAgrees(token, st, first) ==
    SecondInlineAgrees(st, first,
        ProcessInline(token, [first.st EXCEPT !.cur = st.cur]))

\* C14: _process_inline called twice on the same children with the same
\* starting cursor returns the same text and appends the same FormatRanges,
\* and markdown_to_gdocs called again on the same converter with the same
\* markdown returns a ConversionResult equal to the first one
RepeatedCallsAgree ==
    /\ (calls[1].pc = "returned" /\ calls[2].pc = "returned")
          => calls[2].result = calls[1].result
    /\ \A c \in CallIds :
          AtBlock(c, {"paragraph_open", "heading_open"})
            => InlineTwiceAgrees(calls[c].tokens[calls[c].i + 2], Cursor(c),
                   ProcessInline(calls[c].tokens[calls[c].i + 2], Cursor(c)))

\* the second call on the same converter returned a result with text and
\* inline formatting, the first call having left the cursor beyond 1
RepeatedCallReturned ==
    /\ calls[1].pc = "returned"
    /\ calls[2].pc = "returned"
    /\ calls[2].self = calls[1].self
    /\ calls[2].tokens = calls[1].tokens
    /\ current_index[calls[1].self] > 1
    /\ \E k \in 1..Len(calls[2].result.format_ranges) :
          calls[2].result.format_ranges[k].format_type \in {"bold", "link"}

\* C15: generate_batch_requests leaves its ConversionResult argument as it
\* was: at every point of a call, and of a second call on the same object,
\* plain_text, the format ranges, the list ranges and the tables have the
\* values markdown_to_gdocs returned, and the second call returns the list
\* the first call returned
ArgumentLeftUnchanged ==
    /\ gen.pc # "idle" => gen.conversion = calls[1].result
    /\ (gen.pc = "done" /\ gen.previous # None)
          => gen.requests = gen.previous[1]

\* a second call returned the requests of a result with two different tables
GeneratedTwice ==
    /\ gen.pc = "done"
    /\ gen.previous # None
    /\ Len(gen.conversion.tables) = 2
    /\ gen.conversion.tables[1].rows # gen.conversion.tables[2].rows
    /\ NumTableRequests(gen.requests) > 0

\* a caller that found the converter has sent everything it sends
Sent == transport.found /\ transport.pc = "finished"

\* the batches sent after the deletion of the content an update found
SentAfterClearing ==
    IF /\ transport.sent # <<>>
       /\ transport.sent[1] = <<DeleteContentRange(1, transport.end_index)>>
    THEN Tail(transport.sent)
    ELSE transport.sent

\* the batch that inserts the whole plain text at index 1
PlainTextBatch == <<InsertText(1, calls[1].result.plain_text)>>

\* C16 as stated: create_from_markdown and update_from_markdown send the
\* insertion of the whole plain text at index 1 before any generated
\* request, and then the generated requests as one batch in the order
\* generate_batch_requests returned them
InsertionPrecedesEveryRequest ==
    (Sent /\ gen.requests # <<>>)
        => SentAfterClearing = <<PlainTextBatch, gen.requests>>

\* C16 amended: when the plain text is not empty the callers send its
\* insertion at index 1 before any generated request, and when it is empty
\* they send no insertion; then they send the generated requests, when there
\* is any, as one batch in the order generate_batch_requests returned them
InsertionOfTextPrecedesRequests ==
    Sent =>
        SentAfterClearing
          = (IF calls[1].result.plain_text # <<>>
             THEN <<PlainTextBatch>> ELSE <<>>)
            \o (IF gen.requests # <<>> THEN <<gen.requests>> ELSE <<>>)

\* an update cleared the document, inserted a text and sent a batch of
\* several requests holding bullets, styles and a table
TextAndRequestsSent ==
    /\ Sent
    /\ transport.caller = "update"
    /\ Len(transport.sent) = 3
    /\ calls[1].result.plain_text # <<>>
    /\ NumBullets(gen.requests) > 0
    /\ NumTableRequests(gen.requests) > 0

\* the number of tab characters at the 1-indexed positions [a, b) of text
TabsInSpan(text, a, b) ==
    Cardinality({q \in a..(b - 1) : q >= 1 /\ q <= Len(text) /\ text[q] = TAB})

\* T_k: the tabs inside the original spans of the groups before the k-th
RECURSIVE TabsOfGroupsBefore(_, _, _)
TabsOfGroupsBefore(text, list_groups, k) ==
    IF k <= 1 THEN 0
    ELSE TabsOfGroupsBefore(text, list_groups, k - 1)
         + TabsInSpan(text, list_groups[k - 1].start_index,
                      list_groups[k - 1].end_index)

\* C17: the createParagraphBullets request of the k-th list group has
\* startIndex = start_k - T_k and endIndex = end_k - 1 - T_k, T_k being the
\* number of tabs at the 1-indexed positions [start_j, end_j) of the groups
\* j before k
BulletRangesShiftBySpanTabs ==
    Done =>
        \A k \in 1..Len(gen.list_groups) :
            /\ gen.requests[k].op = "createParagraphBullets"
            /\ gen.requests[k].startIndex
                 = gen.list_groups[k].start_index
                   - TabsOfGroupsBefore(gen.conversion.plain_text,
                                        gen.list_groups, k)
            /\ gen.requests[k].endIndex
                 = gen.list_groups[k].end_index - 1
                   - TabsOfGroupsBefore(gen.conversion.plain_text,
                                        gen.list_groups, k)

\* the k-th insertTable request of the returned list
NthTableStart(k) == Nth(TableStarts(gen.requests), k)

\* C18: the correction subtracted for a FormatRange, and for a table, is the
\* number of tabs of plain_text at the 1-indexed positions strictly before
\* the range's start, respectively the table's insert_index; a tab at the
\* position start itself is not counted
CorrectionCountsTabsStrictlyBefore ==
    Done =>
        /\ \A k \in 1..Len(gen.conversion.format_ranges) :
              \A m \in 1..NumRequests(gen.conversion.format_ranges[k]) :
                  /\ gen.conversion.format_ranges[k].start_index
                       - StyleRequestOf(k, m).startIndex
                     = TabsInSpan(gen.conversion.plain_text, 1,
                           gen.conversion.format_ranges[k].start_index)
                  /\ gen.conversion.format_ranges[k].end_index
                       - StyleRequestOf(k, m).endIndex
                     = TabsInSpan(gen.conversion.plain_text, 1,
                           gen.conversion.format_ranges[k].start_index)
        /\ \A k \in 1..Len(gen.conversion.tables) :
              gen.conversion.tables[Len(gen.conversion.tables) + 1 - k].insert_index
                - gen.requests[NthTableStart(k)].index
              = TabsInSpan(gen.conversion.plain_text, 1,
                    gen.conversion.tables[Len(gen.conversion.tables) + 1 - k]
                        .insert_index)

\* the spans [start, end) of two list groups share no position
DisjointSpans(g, h) ==
    g.end_index <= h.start_index \/ h.end_index <= g.start_index

\* C19: for a result the walker produced, the spans over which the list
\* groups count tabs are pairwise disjoint, and the final tab_offset is at
\* most the number of tabs in plain_text
GroupSpansAreDisjoint ==
    (Done /\ gen.tab_offset # None) =>
        /\ \A j \in 1..Len(gen.list_groups) :
              \A k \in (j + 1)..Len(gen.list_groups) :
                  DisjointSpans(gen.list_groups[j], gen.list_groups[k])
        /\ gen.tab_offset[1]
             <= TabsInSpan(gen.conversion.plain_text, 1,
                           Len(gen.conversion.plain_text) + 1)

\* the coordinates <<row, column>> of the cells of a table that hold text
NonEmptyCells(table) ==
    {x \in (1..Len(table.rows)) \X (1..table.num_cols) :
        /\ x[2] <= Len(table.rows[x[1]])
        /\ table.rows[x[1]][x[2]].content # <<>>}

\* cell y comes after cell x in row-major order
ComesAfter(y, x) == y[1] > x[1] \/ (y[1] = x[1] /\ y[2] > x[2])

\* the place of a non-empty cell when rows and columns are visited last to
\* first: one more than the number of non-empty cells after it
ReverseRank(table, x) ==
    1 + Cardinality({y \in NonEmptyCells(table) : ComesAfter(y, x)})

\* the position of the paragraph of cell x in the empty table inserted at
\* index: 4 positions to the first cell, 2 per cell, 1 more per row
EmptyTablePosition(index, table, x) ==
    index + 4 + (x[1] - 1) * (2 * table.num_cols + 1) + 2 * (x[2] - 1)

\* the position a character at pos has once the requests 2..j of a block
\* have been applied in order: an insertion at or before it moves it on
RECURSIVE PositionAfter(_, _, _)
PositionAfter(block, j, pos) ==
    IF j < 2 THEN pos
    ELSE IF block[j].index <= PositionAfter(block, j - 1, pos)
         THEN PositionAfter(block, j - 1, pos) + Len(block[j].text)
         ELSE PositionAfter(block, j - 1, pos)

\* the insertText requests of a block are those of the non-empty cells of
\* the table, last cell first, each at its cell's position in the empty
\* table, which is where the cell is when the request is applied
InsertsFollowCells(block, table) ==
    /\ NumInserts(block) = Cardinality(NonEmptyCells(table))
    /\ \A j \in 2..(1 + NumInserts(block)) : block[j].op = "insertText"
    /\ \A j \in 3..(1 + NumInserts(block)) : block[j].index < block[j - 1].index
    /\ \A x \in NonEmptyCells(table) :
          /\ block[1 + ReverseRank(table, x)].text
               = table.rows[x[1]][x[2]].content
          /\ block[1 + ReverseRank(table, x)].index
               = EmptyTablePosition(block[1].index, table, x)
          /\ block[1 + ReverseRank(table, x)].index
               = PositionAfter(block, ReverseRank(table, x),
                     EmptyTablePosition(block[1].index, table, x))

\* C20: within one table the insertText requests are those of the non-empty
\* cells, rows last to first and columns last to first, at positions computed
\* against the empty table; the indices decrease strictly and each is the
\* position of its cell at the moment the request is applied
CellInsertsRunBackwards ==
    Done =>
        \A k \in TableStarts(gen.requests) :
            \E table \in SeqRange(gen.conversion.tables) :
                /\ gen.requests[k].index
                     = AdjustedIndex(gen.conversion.plain_text, table)
                /\ InsertsFollowCells(BlockOf(gen.requests, k), table)

\* the requests of a table with an empty cell and text in both rows were
\* returned
TableWithEmptyCellFilled ==
    /\ Done
    /\ \E k \in TableStarts(gen.requests) :
          \E table \in SeqRange(gen.conversion.tables) :
              /\ InsertsFollowCells(BlockOf(gen.requests, k), table)
              /\ NumInserts(BlockOf(gen.requests, k)) = 3
              /\ Cardinality(NonEmptyCells(table))
                   < table.num_rows * table.num_cols
              /\ \E x \in NonEmptyCells(table) : x[1] = 2

\* the table whose block is the k-th emitted: the k-th from the end of
\* conversion.tables
TableEmitted(k) ==
    gen.conversion.tables[Len(gen.conversion.tables) + 1 - k]

\* the header cells of a table that hold text
NonEmptyHeaderCells(table) ==
    IF table.num_rows > 0
    THEN {c \in 1..Len(table.rows[1]) : table.rows[1][c].content # <<>>}
    ELSE {}

\* C21: the tables are handled in reverse declaration order: the k-th block
\* of table requests is the complete block (insertTable, cell inserts, border
\* and header styling) of the k-th table from the end, its insertTable
\* carries rows = num_rows, columns = num_cols and index = insert_index minus
\* the tabs before it, and the insertTable indices decrease strictly in
\* emission order
TablesEmittedLastFirst ==
    Done =>
        /\ Cardinality(TableStarts(gen.requests)) = Len(gen.conversion.tables)
        /\ \A k \in 1..Len(gen.conversion.tables) :
              /\ gen.requests[NthTableStart(k)].rows = TableEmitted(k).num_rows
              /\ gen.requests[NthTableStart(k)].columns
                   = TableEmitted(k).num_cols
              /\ gen.requests[NthTableStart(k)].index
                   = TableEmitted(k).insert_index
                     - TabsInSpan(gen.conversion.plain_text, 1,
                                  TableEmitted(k).insert_index)
              /\ InsertsFollowCells(BlockOf(gen.requests, NthTableStart(k)),
                                    TableEmitted(k))
              /\ StyledAfterInsertions(BlockOf(gen.requests, NthTableStart(k)),
                                       TableEmitted(k),
                                       NonEmptyHeaderCells(TableEmitted(k)))
              /\ k > 1 => gen.requests[NthTableStart(k)].index
                            < gen.requests[NthTableStart(k - 1)].index

\* the requests of two different tables were returned
TwoTablesEmitted ==
    /\ Done
    /\ Len(gen.conversion.tables) = 2
    /\ gen.conversion.tables[1].rows # gen.conversion.tables[2].rows
    /\ Cardinality(TableStarts(gen.requests)) = 2

\* C22: for every table of a ConversionResult the precomputed position of
\* cell (r, c) is adjusted_index + 4 + r * (2 * num_cols + 1) + 2 * c, the
\* position of the cell's interior in an empty num_rows x num_cols table,
\* also when rows have fewer cells than num_cols
CellPositionsMatchEmptyTable ==
    \A table \in SeqRange(gen.conversion.tables) :
        \A r \in 1..Len(table.rows) :
            \A c \in 1..Len(table.rows[r]) :
                CellPositions(table.rows,
                    AdjustedIndex(gen.conversion.plain_text, table)
                      + FirstCellOffset)[r][c]
                  = EmptyTablePosition(
                        AdjustedIndex(gen.conversion.plain_text, table),
                        table, <<r, c>>)

\* the named styles of the destination, by markdown heading level
NamedStyles ==
    <<"TITLE", "HEADING_1", "HEADING_2", "HEADING_3", "HEADING_4", "HEADING_5">>

\* the positions of the heading ranges among the format ranges
HeadingRanges ==
    {k \in 1..Len(gen.conversion.format_ranges) :
        gen.conversion.format_ranges[k].format_type = "heading"}

\* C23: a heading FormatRange of level 1 yields the named style TITLE and
\* one of level N in 2..6 yields HEADING_(N-1); every heading yields exactly
\* one updateParagraphStyle request
HeadingLevelsMapToNamedStyles ==
    Done =>
        /\ \A k \in HeadingRanges :
              /\ StyleRequestOf(k, 1).op = "updateParagraphStyle"
              /\ StyleRequestOf(k, 1).fields = "namedStyleType"
              /\ StyleRequestOf(k, 1).namedStyleType
                   = NamedStyles[gen.conversion.format_ranges[k].level]
        /\ Cardinality({j \in 1..Len(gen.requests) :
                           /\ gen.requests[j].op = "updateParagraphStyle"
                           /\ gen.requests[j].fields = "namedStyleType"})
             = Cardinality(HeadingRanges)

\* the request of a heading of level 6 was returned
DeepHeadingStyled ==
    /\ Done
    /\ \E k \in HeadingRanges :
          /\ gen.conversion.format_ranges[k].level = 6
          /\ StyleRequestOf(k, 1).namedStyleType = "HEADING_5"

\* the child at the 0-based index i opens a span that no later child closes
OpensUnterminatedSpan(children, i) ==
    /\ i < Len(children)
    /\ children[i + 1].type \in {"strong_open", "em_open", "link_open"}
    /\ \A j \in (i + 2)..Len(children) :
          children[j].type # SpanClose(children[i + 1].type)

\* the contents of the text children after the 0-based index i, concatenated
RECURSIVE TextAfter(_, _)
TextAfter(children, i) ==
    IF i + 1 >= Len(children) THEN <<>>
    ELSE (IF children[i + 2].type = "text" THEN children[i + 2].content
          ELSE <<>>)
         \o TextAfter(children, i + 1)

\* the loop of the call is at a span left open and takes its step
UnterminatedSpanStep ==
    /\ inline.pc = "loop"
    /\ inline'.pc = "loop"
    /\ inline'.s # inline.s
    /\ OpensUnterminatedSpan(inline.children, inline.s.i)

\* the step records one FormatRange, from the cursor plus the text so far
\* over the text of all remaining text children, returns that text after the
\* text so far, and leaves the loop at its end
ClosedAtEndOfSiblings ==
    /\ Len(inline'.s.st.res.format_ranges)
         = Len(inline.s.st.res.format_ranges) + 1
    /\ SubSeq(inline'.s.st.res.format_ranges, 1,
              Len(inline.s.st.res.format_ranges))
         = inline.s.st.res.format_ranges
    /\ LastRange(inline'.s.st.res).text
         = Some(TextAfter(inline.children, inline.s.i))
    /\ LastRange(inline'.s.st.res).start_index
         = inline.s.st.cur + Len(inline.s.text)
    /\ LastRange(inline'.s.st.res).end_index
         = inline.s.st.cur + Len(inline.s.text)
           + Len(TextAfter(inline.children, inline.s.i))
    /\ LastRange(inline'.s.st.res).format_type
         = SpanKind(inline.children[inline.s.i + 1].type)
    /\ inline'.s.text = inline.s.text \o TextAfter(inline.children, inline.s.i)
    /\ inline'.s.i >= Len(inline.children)
    /\ inline'.s.st.cur = inline.s.st.cur

\* C24: on any child sequence, spans left open included, _process_inline
\* terminates, its index never passes the end of the sequence by more than
\* the skip over a missing close token and no iteration runs at or beyond
\* the end, and a span left open is closed by the end of the siblings: its
\* text is that of all remaining text children and one FormatRange is
\* recorded for it
InlineFailsSoft ==
    /\ [](inline.pc # "idle"
            => /\ inline.s.i <= Len(inline.children) + 1
               /\ Len(inline.s.st.res.format_ranges) <= Len(inline.children))
    /\ [][UnterminatedSpanStep => ClosedAtEndOfSiblings]_vars
    /\ <>(inline.pc = "returned")

\* the call returned from a sequence that opens a bold span, holds text and
\* never closes the span
UnterminatedSpanReturned ==
    /\ inline.pc = "returned"
    /\ Len(inline.children) = 3
    /\ inline.children[1].type = "strong_open"
    /\ OpensUnterminatedSpan(inline.children, 0)
    /\ inline.s.i = Len(inline.children) + 1
    /\ Len(inline.s.st.res.format_ranges) = 1
    /\ inline.s.text # <<>>

\* the checkbox marker matched without regard to case, at the 1-based
\* position b of s after "[" and whitespace: x or X if present, whitespace,
\* "]", whitespace
MarkerEnd(s, b) ==
    SkipSpaces(s, IF b <= Len(s) /\ s[b] \in {"x", "X"} THEN b + 1 ELSE b)

\* s without a leading checkbox marker "[ ]", "[x]" or "[X]" and the
\* whitespace around it
WithoutMarker(s) ==
    IF /\ SkipSpaces(s, 1) <= Len(s)
       /\ s[SkipSpaces(s, 1)] = "["
       /\ MarkerEnd(s, SkipSpaces(s, SkipSpaces(s, 1) + 1)) <= Len(s)
       /\ s[MarkerEnd(s, SkipSpaces(s, SkipSpaces(s, 1) + 1))] = "]"
    THEN FromTo(s,
             SkipSpaces(s, MarkerEnd(s, SkipSpaces(s, SkipSpaces(s, 1) + 1)) + 1),
             Len(s))
    ELSE s

\* the text of a list range between its indentation tabs and its newline
ItemText(plain_text, lr) ==
    FromTo(plain_text, lr.start_index + lr.nesting_level, lr.end_index - 2)

\* C25: a leading checkbox marker "[ ]" or "[x]", in either case, with the
\* whitespace around it is removed from a list item's text before it is
\* appended, and text that is blank after that is not appended and commits
\* no range: the text of every list range is free of a leading marker and
\* is not blank
CheckboxMarkersRemoved ==
    Returned =>
        \A k \in 1..Len(calls[1].result.list_ranges) :
            /\ WithoutMarker(ItemText(calls[1].result.plain_text,
                                      calls[1].result.list_ranges[k]))
                 = ItemText(calls[1].result.plain_text,
                            calls[1].result.list_ranges[k])
            /\ Strip(ItemText(calls[1].result.plain_text,
                              calls[1].result.list_ranges[k])) # <<>>

\* the table block opened at token index has a cell before its table_close
RECURSIVE HasCellBeforeClose(_, _)
HasCellBeforeClose(tokens, i) ==
    IF i >= Len(tokens) \/ tokens[i + 1].type = "table_close" THEN FALSE
    ELSE \/ tokens[i + 1].type \in {"th_open", "td_open"}
         \/ HasCellBeforeClose(tokens, i + 1)

\* C26: processing a table block records the table at the cursor of the
\* table's opening; a block with a non-empty row appends exactly one
\* TableData and exactly one newline to the buffer and moves the cursor by
\* one, a block without one leaves buffer, cursor and tables unchanged; in
\* both cases no cell text reaches the buffer and no FormatRange or
\* ListItemRange is added
TableBlockAddsOnlyPlaceholder ==
    [][(AtBlock(1, {"table_open"}) /\ calls' # calls) =>
         /\ calls'[1].result.format_ranges = calls[1].result.format_ranges
         /\ calls'[1].result.list_ranges = calls[1].result.list_ranges
         /\ IF HasCellBeforeClose(calls[1].tokens, calls[1].i + 1)
            THEN /\ Len(calls'[1].result.tables)
                      = Len(calls[1].result.tables) + 1
                 /\ SubSeq(calls'[1].result.tables, 1,
                           Len(calls[1].result.tables))
                      = calls[1].result.tables
                 /\ calls'[1].result.tables[Len(calls'[1].result.tables)]
                        .insert_index = current_index[calls[1].self]
                 /\ calls'[1].result.tables[Len(calls'[1].result.tables)]
                        .rows # <<>>
                 /\ calls'[1].result.plain_text
                      = calls[1].result.plain_text \o <<NL>>
                 /\ current_index'[calls[1].self]
                      = current_index[calls[1].self] + 1
            ELSE /\ calls'[1].result.tables = calls[1].result.tables
                 /\ calls'[1].result.plain_text = calls[1].result.plain_text
                 /\ current_index' = current_index
    ]_vars

\* a table whose cells hold text was converted after another block: the
\* buffer holds the newline at the table's position and none of the cell text
TableRecordedAfterBlock ==
    /\ Returned
    /\ \E k \in 1..Len(calls[1].result.tables) :
          /\ calls[1].result.tables[k].insert_index > 1
          /\ calls[1].result.plain_text[calls[1].result.tables[k].insert_index]
               = NL
          /\ calls[1].result.tables[k].rows[1][1].content = <<"h">>
          /\ "h" \notin SeqRange(calls[1].result.plain_text)

\* the positions a request carries: startIndex and endIndex of a range,
\* the index of a location, the tableStart location of a cell style
PositionsOf(q) ==
    (IF "startIndex" \in DOMAIN q THEN {q.startIndex, q.endIndex} ELSE {})
    \cup (IF "index" \in DOMAIN q THEN {q.index} ELSE {})
    \cup (IF "tableStart" \in DOMAIN q THEN {q.tableStart} ELSE {})

\* C27: every position generate_batch_requests emits for a result of
\* markdown_to_gdocs is at least 1, the first position of the destination
\* buffer, and every emitted range has startIndex <= endIndex
EmittedPositionsStartAtOne ==
    Done =>
        \A k \in 1..Len(gen.requests) :
            /\ \A p \in PositionsOf(gen.requests[k]) : p >= 1
            /\ "startIndex" \in DOMAIN gen.requests[k]
                 => gen.requests[k].startIndex <= gen.requests[k].endIndex

\* C28: the ListItemRanges of one conversion are in non-decreasing start
\* order and pairwise non-overlapping: each range starts at or after the
\* end of the range recorded before it, also for an item with content
\* before and after a nested list, so each item is covered by one range
ListRangesInOrderWithoutOverlap ==
    Returned =>
        \A k \in 2..Len(calls[1].result.list_ranges) :
            calls[1].result.list_ranges[k].start_index
              >= calls[1].result.list_ranges[k - 1].end_index

\* the positions of the tabs the walker appended as list indentation: the
\* tabs of the buffer outside the code blocks, whose content is the only
\* text of the inputs that holds a tab of its own
IndentationTabs(result) ==
    {p \in 1..Len(result.plain_text) :
        /\ result.plain_text[p] = TAB
        /\ \A fr \in SeqRange(result.format_ranges) :
              fr.format_type = "code_block"
                => ~(fr.start_index <= p /\ p < fr.end_index)}

\* C29: every tab the walker appends as list indentation lies inside the
\* span of some committed ListItemRange, so that bulletizing removes it; a
\* nested list item without content leaves no indentation tab outside
\* every range
IndentationTabsLieInRanges ==
    Returned =>
        \A p \in IndentationTabs(calls[1].result) :
            \E lr \in SeqRange(calls[1].result.list_ranges) :
                lr.start_index <= p /\ p < lr.end_index

\* the caller reported an exception of the conversion or of the request
\* generation and exited
Aborted == transport.pc = "aborted" /\ transport.error # ""

\* C30: when markdown conversion or request generation raises inside
\* create_from_markdown or update_from_markdown, the caller reports the
\* message and aborts, and no mutating request has been sent by then: no
\* document was created, no content deleted, no text inserted and no
\* formatting batch applied
NothingSentBeforeAbort ==
    /\ transport.pc = "aborted" => transport.error # ""
    /\ Aborted => transport.sent = <<>>

====
